---- MODULE Spec2Model ----
(***************************************************************************)
(* Model of the agentic tool-call orchestration engine of zerog:          *)
(*   - AgentLoop (src/src/features/commands/CommandRunner.ts): the         *)
(*     pause/resume state machine run / _executeTask / approve / reject /  *)
(*     stop, with every run() call an activation of its own;               *)
(*   - PromptFactory.parseToolCall (src/unnamed/part_004): the regular     *)
(*     expression and the JSON check, on character sequences;              *)
(*   - the webview stream parser (src/media/chat.js): appendAgentChunk /   *)
(*     processAgentBuffer / finalizeStream, on character sequences.        *)
(* Texts are sequences of one-character strings.                           *)
(***************************************************************************)
EXTENDS Integers, Sequences, FiniteSets, TLC

VARIABLES
  plan,        \* the IPlanTask[] array passed to run(): task id -> status
  maxIter,     \* ConfigService agent.maxIterations, as read by run()
  running,     \* AgentLoop._running
  state,       \* AgentLoop._state
  resolver,    \* AgentLoop._toolApprovalResolve: 0 = null, r = the resolve of activation r's promise
  promiseVal,  \* per activation: the promise of _waitForToolApproval ("none", "pending", "true", "false")
  pc,          \* per activation of run(): where it is suspended
  curTask,     \* per activation: nextTask (0 = none)
  iterations,  \* per activation: local iterations of run()
  turn,        \* per activation: local turn of _executeTask
  history,     \* per activation: local history of _executeTask, as message kinds
  reply,       \* per activation: index in Replies of fullResponse (0 = none yet)
  toolCall,    \* per activation: local toolCall of _executeTask
  nToolReplies,\* number of model replies carrying an action so far (bounded)
  resolvedBy,  \* history variable, per activation: which call resolved its current promise
  stopMid,     \* history variable, per activation: stop() came during its operation in flight (THINKING / EXECUTING)
  stopSeen,    \* history variable, per activation: stop() came while it was active
  turnWaits,   \* history variable, per activation: waitingForTool events since its last model request
  turnExecs,   \* history variable, per activation: ToolHandler.execute calls since its last model request
  taskRequests,\* history variable, per activation: sendMessage calls of its current task
  taskExecs,   \* history variable, per activation: ToolHandler.execute calls of its current task
  rejected,    \* history variable: tasks whose pending action was rejected
  emitted,     \* the AgentEvents passed to _onEvent by the latest step that emitted any
  rejMsgs,     \* history variable: per task, the Rejected tool-result messages pushed to its history
  parser,      \* chat.js: agentParserState, agentRawBuffer, agentContentBuffer, and the segments finalized
  text,        \* the complete response text being streamed to the webview
  pos,         \* how many characters of text have been fed
  nFeeds,      \* history variable: number of fragments fed so far, counted up to 2
  heldBack,    \* history variable: some feed ended with a part of an end delimiter held back
  flushed,     \* finalizeStream has run
  made,        \* the segments the response text was composed of, where it was composed of segments
  result,      \* the IToolResult returned by ToolHandler.execute: output and status
  resultMessage, \* the content of the tool-result message pushed for result (<<>> = not pushed yet)
  assistantMessage, \* the response text handed to parsePlan / parseToolCall
  planTasks,   \* what parsePlan(assistantMessage) returned (found FALSE = null), once called
  currentPlan, \* SidebarProvider._currentPlan as set from planTasks (<<>> = not set)
  action,      \* what parseToolCall(assistantMessage) returned, once called
  terminal,    \* TerminalService: the Zero-G terminal ("none", "open", "closed" by the user)
  call,        \* TerminalService: the executeCommand(s) call in flight or last made
  phase,       \* TerminalService: where that call is ("idle", "dialog", "sending", "returned")
  choice,      \* TerminalService: the button the dialog of that call returned ("" = none yet / dismissed)
  sent,        \* TerminalService: the texts that call passed to terminal.sendText
  copied,      \* TerminalService: that call wrote the clipboard
  ret,         \* TerminalService: what that call returned ("none" while in flight, "true", "false")
  calls        \* TerminalService: number of calls made so far

agentVars == <<plan, maxIter, running, state, resolver, promiseVal, pc, curTask,
               iterations, turn, history, reply, toolCall, nToolReplies,
               resolvedBy, stopMid, stopSeen, turnWaits, turnExecs, taskRequests,
                 taskExecs, rejected, rejMsgs,
               emitted>>

parserVars == <<parser, text, pos, nFeeds, heldBack, flushed, made>>

truncVars == <<result, resultMessage>>

extractVars == <<assistantMessage, planTasks, currentPlan, action>>

termVars == <<terminal, call, phase, choice, sent, copied, ret, calls>>

vars == <<agentVars, parserVars, truncVars, extractVars, termVars>>

----------------------------------------------------------------------------
(* Bounds of the model *)

NumTasks == 2
MaxRuns == 2
MaxToolReplies == 2
MaxPieces == 2
MaxSegs == 2
MaxElems == 2
MaxCmds == 2
MaxCalls == 2

(* Program constants *)

MAX_TOOL_TURNS == 20

Tasks == 1..NumTasks
Runs == 1..MaxRuns
Statuses == {"pending", "in_progress", "done"}

----------------------------------------------------------------------------
(* Characters and texts *)

Ws == {" ", "\n"}
Digits == {"0", "1", "2", "3", "4", "5", "6", "7", "8", "9"}

TcOpen == <<"<", "t", "o", "o", "l", "_", "c", "a", "l", "l", ">">>
TcClose == <<"<", "/", "t", "o", "o", "l", "_", "c", "a", "l", "l", ">">>

Min(S) == CHOOSE x \in S : \A y \in S : x <= y
Max(S) == CHOOSE x \in S : \A y \in S : x >= y

HasAt(s, i, pat) ==
  /\ i >= 1
  /\ i + Len(pat) - 1 <= Len(s)
  /\ \A k \in 1..Len(pat) : s[i + k - 1] = pat[k]

\* the first index >= i that holds no white space (Len(s)+1 if none): a greedy \s*
SkipWs(s, i) ==
  Min({j \in i..(Len(s) + 1) : j = Len(s) + 1 \/ s[j] \notin Ws})

----------------------------------------------------------------------------
(* JSON.parse, for the JSON texts the model builds: objects, arrays, strings *)
(* without escapes, unsigned integers; white space between tokens.          *)

JNull == [t |-> "null", s |-> <<>>, f |-> <<>>]
JFail == [ok |-> FALSE, next |-> 0, val |-> JNull]

JString(s, i) ==
  LET ends == {j \in (i + 1)..Len(s) : s[j] = "\""}
  IN IF ends = {} THEN JFail
     ELSE [ok |-> TRUE, next |-> Min(ends) + 1,
           val |-> [t |-> "str", s |-> SubSeq(s, i + 1, Min(ends) - 1), f |-> <<>>]]

JNumber(s, i) ==
  LET stop == Min({j \in i..(Len(s) + 1) : j = Len(s) + 1 \/ s[j] \notin Digits})
  IN [ok |-> TRUE, next |-> stop,
      val |-> [t |-> "num", s |-> SubSeq(s, i, stop - 1), f |-> <<>>]]

RECURSIVE JValue(_, _), JMembers(_, _, _), JElements(_, _, _)

JValue(s, i) ==
  LET k == SkipWs(s, i)
  IN IF k > Len(s) THEN JFail
     ELSE IF s[k] = "\"" THEN JString(s, k)
     ELSE IF s[k] \in Digits THEN JNumber(s, k)
     ELSE IF s[k] = "{"
       THEN LET k2 == SkipWs(s, k + 1)
            IN IF k2 <= Len(s) /\ s[k2] = "}"
                 THEN [ok |-> TRUE, next |-> k2 + 1,
                       val |-> [t |-> "obj", s |-> <<>>, f |-> <<>>]]
                 ELSE JMembers(s, k2, <<>>)
     ELSE IF s[k] = "["
       THEN LET k2 == SkipWs(s, k + 1)
            IN IF k2 <= Len(s) /\ s[k2] = "]"
                 THEN [ok |-> TRUE, next |-> k2 + 1,
                       val |-> [t |-> "arr", s |-> <<>>, f |-> <<>>]]
                 ELSE JElements(s, k2, <<>>)
     ELSE JFail

\* the elements of an array from index i on, acc the elements read so far
JElements(s, i, acc) ==
  LET v == JValue(s, i)
  IN IF ~v.ok THEN JFail
     ELSE LET e == SkipWs(s, v.next)
              acc2 == Append(acc, v.val)
          IN IF e > Len(s) THEN JFail
             ELSE IF s[e] = "]"
               THEN [ok |-> TRUE, next |-> e + 1,
                     val |-> [t |-> "arr", s |-> <<>>, f |-> acc2]]
             ELSE IF s[e] = ","
               THEN JElements(s, e + 1, acc2)
             ELSE JFail

\* the members of an object from index i on, acc the members read so far
JMembers(s, i, acc) ==
  IF i > Len(s) \/ s[i] # "\"" THEN JFail
  ELSE LET key == JString(s, i)
       IN IF ~key.ok THEN JFail
          ELSE LET c == SkipWs(s, key.next)
               IN IF c > Len(s) \/ s[c] # ":" THEN JFail
                  ELSE LET v == JValue(s, c + 1)
                       IN IF ~v.ok THEN JFail
                          ELSE LET e == SkipWs(s, v.next)
                                   acc2 == Append(acc, [k |-> key.val.s, v |-> v.val])
                               IN IF e > Len(s) THEN JFail
                                  ELSE IF s[e] = "}"
                                    THEN [ok |-> TRUE, next |-> e + 1,
                                          val |-> [t |-> "obj", s |-> <<>>, f |-> acc2]]
                                  ELSE IF s[e] = ","
                                    THEN JMembers(s, SkipWs(s, e + 1), acc2)
                                  ELSE JFail

\* JSON.parse(s): ok is FALSE where JSON.parse throws
JSONparse(s) ==
  LET r == JValue(s, 1)
  IN IF r.ok /\ SkipWs(s, r.next) = Len(s) + 1 THEN r ELSE JFail

\* obj.key of a parsed value: the last member of that key, JNull (undefined) if none
JGet(v, key) ==
  LET idx == {n \in 1..Len(v.f) : v.f[n].k = key}
  IN IF v.t # "obj" \/ idx = {} THEN JNull
     ELSE v.f[CHOOSE n \in idx : \A m \in idx : m <= n].v

\* JavaScript truthiness of a parsed value
Truthy(v) ==
  CASE v.t = "null" -> FALSE
    [] v.t = "str" -> v.s # <<>>
    [] v.t = "num" -> \E n \in 1..Len(v.s) : v.s[n] # "0"
    [] OTHER -> TRUE

KeyName == <<"n", "a", "m", "e">>
KeyArguments == <<"a", "r", "g", "u", "m", "e", "n", "t", "s">>
KeyCommand == <<"c", "o", "m", "m", "a", "n", "d">>
ToolRunCommand == <<"r", "u", "n", "_", "c", "o", "m", "m", "a", "n", "d">>
ToolWriteFile == <<"w", "r", "i", "t", "e", "_", "f", "i", "l", "e">>

----------------------------------------------------------------------------
(* PromptFactory.parseToolCall *)

NoToolCall == [found |-> FALSE, name |-> JNull, arguments |-> JNull]

\* the ends e of a lazy \{[\s\S]*?\} opened at k that \s*<\/tool_call> follows
TcEnds(s, k) ==
  {e \in (k + 1)..Len(s) : s[e] = "}" /\ HasAt(s, SkipWs(s, e + 1), TcClose)}

\* the regular expression matches with <tool_call> at i
TcMatchAt(s, i) ==
  /\ HasAt(s, i, TcOpen)
  /\ LET k == SkipWs(s, i + Len(TcOpen))
     IN k <= Len(s) /\ s[k] = "{" /\ TcEnds(s, k) # {}

\* the match with the bug of taking the last <tool_call> of the response
TcMatch_LastCall(s) ==
  LET starts == {i \in 1..Len(s) : TcMatchAt(s, i)}
  IN IF starts = {} THEN <<>>
     ELSE LET k == SkipWs(s, Max(starts) + Len(TcOpen))
          IN SubSeq(s, k, Min(TcEnds(s, k)))

\* match[1] of response.match(/<tool_call>\s*(\{[\s\S]*?\})\s*<\/tool_call>/), <<>> if no match
TcMatch(s) ==
  LET starts == {i \in 1..Len(s) : TcMatchAt(s, i)}
  IN IF starts = {} THEN <<>>
     ELSE LET k == SkipWs(s, Min(starts) + Len(TcOpen))
          IN SubSeq(s, k, Min(TcEnds(s, k)))

\* parseToolCall with the bug of going on to the next match when the payload
\* of a match is refused
parseToolCall_FallsThrough(response) ==
  LET starts == {i \in 1..Len(response) : TcMatchAt(response, i)}
      cand(i) == LET k == SkipWs(response, i + Len(TcOpen))
                 IN SubSeq(response, k, Min(TcEnds(response, k)))
      good == {i \in starts :
                 /\ JSONparse(cand(i)).ok
                 /\ Truthy(JGet(JSONparse(cand(i)).val, KeyName))
                 /\ Truthy(JGet(JSONparse(cand(i)).val, KeyArguments))}
  IN IF good = {} THEN NoToolCall
     ELSE [found |-> TRUE, name |-> JGet(JSONparse(cand(Min(good))).val, KeyName),
           arguments |-> JGet(JSONparse(cand(Min(good))).val, KeyArguments)]

parseToolCall(response) ==
  LET m == TcMatch(response)
      parsed == JSONparse(m)
  IN IF m = <<>> THEN NoToolCall
     ELSE IF parsed.ok /\ Truthy(JGet(parsed.val, KeyName))
                       /\ Truthy(JGet(parsed.val, KeyArguments))
       THEN [found |-> TRUE, name |-> JGet(parsed.val, KeyName),
             arguments |-> JGet(parsed.val, KeyArguments)]
     ELSE NoToolCall

----------------------------------------------------------------------------
(* The stream parser of the webview (media/chat.js) *)

\* s.indexOf(pat) + 1: the first index where pat occurs in s, 0 if none
IndexOf(s, pat) ==
  LET at == {i \in 1..Len(s) : HasAt(s, i, pat)}
  IN IF at = {} THEN 0 ELSE Min(at)

\* s.substring(i - 1): s from index i on
From(s, i) == SubSeq(s, i, Len(s))

\* s.trim()
Trim(s) ==
  LET ink == {i \in 1..Len(s) : s[i] \notin Ws}
  IN IF ink = {} THEN <<>> ELSE SubSeq(s, Min(ink), Max(ink))

Tags == {"thinking", "tool_call", "message"}

TagChars(tag) ==
  CASE tag = "thinking" -> <<"t", "h", "i", "n", "k", "i", "n", "g">>
    [] tag = "tool_call" -> <<"t", "o", "o", "l", "_", "c", "a", "l", "l">>
    [] tag = "message" -> <<"m", "e", "s", "s", "a", "g", "e">>

StartTag(tag) == <<"<">> \o TagChars(tag) \o <<">">>
ClosingTag(tag) == <<"<", "/">> \o TagChars(tag) \o <<">">>

\* startStreamingMessage: the parser at the start of a response
\* shown: the text renderAgentContent has put on display, by segment type;
\* cards: the file-change cards and tool widgets appended; parses: the payloads
\* JSON.parse was called with
InitParser ==
  [st |-> "idle", raw |-> <<>>, content |-> <<>>, segs |-> <<>>,
   shown |-> [tag \in Tags |-> <<>>], cards |-> <<>>, parses |-> <<>>]

\* renderAgentContent(state, newContent): an increment of the open segment
renderAgentContent(p, tag, newContent) ==
  IF tag = "thinking" \/ tag = "message"
    THEN [p EXCEPT !.shown[tag] = @ \o newContent]
    ELSE p

\* the tool_call branch with the bug of appending a widget whatever the payload
CardsOf_Always(fullContent) == <<"tool-call-widget">>

\* the card or widget the tool_call branch of finalizeAgentTag appends for a
\* payload, none when JSON.parse throws or the name is another one
CardsOf(fullContent) ==
  LET tc == JSONparse(Trim(fullContent))
      name == IF tc.ok THEN JGet(tc.val, KeyName) ELSE JNull
  IN IF name.t = "str" /\ name.s = ToolWriteFile THEN <<"file-change-card">>
     ELSE IF name.t = "str" /\ name.s = ToolRunCommand THEN <<"tool-call-widget">>
     ELSE <<>>

\* finalizeAgentTag with the bug of putting the segment before the earlier ones
finalizeAgentTag_Prepends(p, tag, fullContent) ==
  [p EXCEPT !.segs = <<[type |-> tag, content |-> fullContent]>> \o @]

\* finalizeAgentTag(state, fullContent): the segment is closed
finalizeAgentTag(p, tag, fullContent) ==
  LET q == [p EXCEPT !.segs = Append(@, [type |-> tag, content |-> fullContent])]
  IN IF tag = "tool_call"
       THEN [q EXCEPT !.parses = Append(@, fullContent), !.cards = @ \o CardsOf(fullContent)]
       ELSE q

\* the hold-back loop with the bug of holding back only a final "<"
HoldBack_OneChar(raw, closingTag) ==
  IF raw # <<>> /\ raw[Len(raw)] = closingTag[1] THEN 1 ELSE 0

\* the hold-back loop with the bug of holding nothing back
HoldBack_Nothing(raw, closingTag) == 0

\* the hold-back loop with the bug of keeping the end of the buffer whether or
\* not it begins the end delimiter
HoldBack_KeepsTail(raw, closingTag) ==
  IF Len(raw) < Len(closingTag) - 1 THEN Len(raw) ELSE Len(closingTag) - 1

\* the hold-back loop of processAgentBuffer: the length of the longest proper
\* prefix of closingTag that raw ends with, 0 if none
HoldBack(raw, closingTag) ==
  LET fits == {n \in 1..(Len(closingTag) - 1) :
                 Len(raw) >= n /\ From(raw, Len(raw) - n + 1) = SubSeq(closingTag, 1, n)}
  IN IF fits = {} THEN 0 ELSE Max(fits)

RECURSIVE processAgentBuffer(_)
processAgentBuffer(p) ==
  IF p.raw = <<>> THEN p
  ELSE IF p.st = "idle"
    THEN LET openIdx == IndexOf(p.raw, <<"<">>)
             raw1 == From(p.raw, openIdx)
             closeIdx == IndexOf(raw1, <<">">>)
             tagContent == Trim(SubSeq(raw1, 2, closeIdx - 1))
             raw2 == From(raw1, closeIdx + 1)
         IN IF openIdx = 0 THEN [p EXCEPT !.raw = <<>>]
            ELSE IF closeIdx = 0 THEN [p EXCEPT !.raw = raw1]
            ELSE IF \E tag \in Tags : tagContent = TagChars(tag)
              THEN processAgentBuffer(
                     [p EXCEPT !.raw = raw2, !.content = <<>>,
                               !.st = CHOOSE tag \in Tags : tagContent = TagChars(tag)])
              ELSE processAgentBuffer([p EXCEPT !.raw = raw2])
    ELSE LET closingTag == ClosingTag(p.st)
             cIdx == IndexOf(p.raw, closingTag)
             hold == HoldBack(p.raw, closingTag)
         IN IF cIdx = 0
              THEN [renderAgentContent(p, p.st, SubSeq(p.raw, 1, Len(p.raw) - hold))
                      EXCEPT !.content = @ \o SubSeq(p.raw, 1, Len(p.raw) - hold),
                             !.raw = From(p.raw, Len(p.raw) - hold + 1)]
              ELSE processAgentBuffer(
                     [finalizeAgentTag(renderAgentContent(p, p.st, SubSeq(p.raw, 1, cIdx - 1)),
                                       p.st, p.content \o SubSeq(p.raw, 1, cIdx - 1))
                        EXCEPT !.raw = From(p.raw, cIdx + Len(closingTag)),
                               !.st = "idle", !.content = <<>>])

appendAgentChunk(p, chunk) == processAgentBuffer([p EXCEPT !.raw = @ \o chunk])

\* finalizeStream, agent mode
finalizeStream(p) ==
  LET q == IF p.raw # <<>> /\ p.st # "idle"
             THEN finalizeAgentTag(p, p.st, p.content \o p.raw)
             ELSE p
  IN [q EXCEPT !.st = "idle", !.raw = <<>>, !.content = <<>>]

\* the pieces response texts are built from
Pieces ==
  { StartTag("thinking"), ClosingTag("thinking"), StartTag("tool_call"),
    ClosingTag("tool_call"), StartTag("message"), ClosingTag("message"),
    <<"a">>, <<"<">>, <<"<", "/">>, <<">">>, <<"a">> \o ClosingTag("message") }

RECURSIVE TextsOf(_)
TextsOf(n) ==
  IF n = 0 THEN {<<>>}
  ELSE LET shorter == TextsOf(n - 1)
       IN shorter \cup {t \o q : t \in shorter, q \in Pieces}

\* the response texts: one to MaxPieces pieces
Texts == TextsOf(MaxPieces) \ {<<>>}

\* responses composed of complete segments: each is free text (pre), a start tag,
\* a content that does not hold the end tag, and the end tag
SegPres == {<<>>, <<"a">>, <<"<">>}
SegContents == {<<>>, <<"a">>, <<"a", "<", "/">>}
Units == [pre : SegPres, type : Tags, content : SegContents]
UnitLists == UNION {[1..k -> Units] : k \in 1..MaxSegs}

UnitText(u) == u.pre \o StartTag(u.type) \o u.content \o ClosingTag(u.type)

RECURSIVE TextOfUnits(_)
TextOfUnits(us) ==
  IF us = <<>> THEN <<>> ELSE UnitText(Head(us)) \o TextOfUnits(Tail(us))

----------------------------------------------------------------------------
(* Model replies: a reply is the text before its tool calls followed by its *)
(* tool_call payloads, each between the markers and padded with pad.       *)

\* {"name":"read_file","arguments":{"file_path":"a"}}
PayRead ==
  <<"{", "\"", "n", "a", "m", "e", "\"", ":", "\"", "r", "e", "a", "d", "_", "f", "i", "l",
    "e", "\"", ",", "\"", "a", "r", "g", "u", "m", "e", "n", "t", "s", "\"", ":", "{", "\"",
    "f", "i", "l", "e", "_", "p", "a", "t", "h", "\"", ":", "\"", "a", "\"", "}", "}">>

\* {"name":"run_command","arguments":{"command":"ls"}}
PayCmd ==
  <<"{", "\"", "n", "a", "m", "e", "\"", ":", "\"", "r", "u", "n", "_", "c", "o", "m", "m",
    "a", "n", "d", "\"", ",", "\"", "a", "r", "g", "u", "m", "e", "n", "t", "s", "\"", ":",
    "{", "\"", "c", "o", "m", "m", "a", "n", "d", "\"", ":", "\"", "l", "s", "\"", "}", "}">>

\* {"name":"write_file","arguments":{"file_path":"a","content":"}"}}
PayBrace ==
  <<"{", "\"", "n", "a", "m", "e", "\"", ":", "\"", "w", "r", "i", "t", "e", "_", "f", "i",
    "l", "e", "\"", ",", "\"", "a", "r", "g", "u", "m", "e", "n", "t", "s", "\"", ":", "{",
    "\"", "f", "i", "l", "e", "_", "p", "a", "t", "h", "\"", ":", "\"", "a", "\"", ",", "\"",
    "c", "o", "n", "t", "e", "n", "t", "\"", ":", "\"", "}", "\"", "}", "}">>

\* {"name":"read_file","argu
PayTrunc ==
  <<"{", "\"", "n", "a", "m", "e", "\"", ":", "\"", "r", "e", "a", "d", "_", "f", "i", "l",
    "e", "\"", ",", "\"", "a", "r", "g", "u">>

\* {"name":"read_file"}
PayNoArgs ==
  <<"{", "\"", "n", "a", "m", "e", "\"", ":", "\"", "r", "e", "a", "d", "_", "f", "i", "l",
    "e", "\"", "}">>

\* {"name":"run_command","arguments":{"file_path":"a"}}
PayCmdNoCommand ==
  <<"{", "\"", "n", "a", "m", "e", "\"", ":", "\"", "r", "u", "n", "_", "c", "o", "m", "m",
    "a", "n", "d", "\"", ",", "\"", "a", "r", "g", "u", "m", "e", "n", "t", "s", "\"", ":",
    "{", "\"", "f", "i", "l", "e", "_", "p", "a", "t", "h", "\"", ":", "\"", "a", "\"", "}",
    "}">>

\* read a
PayText ==
  <<"r", "e", "a", "d", " ", "a">>

\* <message>ok</message>
TxtMessage ==
  <<"<", "m", "e", "s", "s", "a", "g", "e", ">", "o", "k", "<", "/", "m", "e", "s", "s", "a",
    "g", "e", ">">>

\* <thinking>x</thinking>
TxtThinking ==
  <<"<", "t", "h", "i", "n", "k", "i", "n", "g", ">", "x", "<", "/", "t", "h", "i", "n", "k",
    "i", "n", "g", ">">>

RECURSIVE RenderPays(_, _)
RenderPays(pays, pad) ==
  IF pays = <<>> THEN <<>>
  ELSE TcOpen \o pad \o Head(pays) \o pad \o TcClose \o RenderPays(Tail(pays), pad)

\* a reply: a complete segment or nothing (pre), tool_call segments with the
\* payloads pays, a complete segment or nothing (post), and, where the stream was
\* cut, a tool_call left open with the payload tail
ReplyDescs ==
  << [pre |-> TxtMessage,  pad |-> <<>>,    pays |-> <<>>, post |-> <<>>, tail |-> <<>>],
     [pre |-> <<>>,        pad |-> <<>>,    pays |-> <<PayRead>>, post |-> <<>>, tail |-> <<>>],
     [pre |-> TxtThinking, pad |-> <<" ">>, pays |-> <<PayBrace, PayCmd>>, post |-> <<>>,
      tail |-> <<>>],
     [pre |-> <<>>,        pad |-> <<>>,    pays |-> <<PayTrunc, PayRead>>, post |-> <<>>,
      tail |-> <<>>],
     [pre |-> <<>>,        pad |-> <<"\n">>, pays |-> <<PayText, PayCmdNoCommand>>,
      post |-> <<>>, tail |-> <<>>],
     [pre |-> TxtMessage,  pad |-> <<>>,    pays |-> <<PayNoArgs, PayCmd>>, post |-> <<>>,
      tail |-> <<>>],
     [pre |-> <<>>,        pad |-> <<>>,    pays |-> <<PayTrunc>>, post |-> TxtMessage,
      tail |-> <<>>],
     [pre |-> TxtThinking, pad |-> <<>>,    pays |-> <<>>, post |-> <<>>, tail |-> PayTrunc] >>

NumReplies == Len(ReplyDescs)

\* the text sendMessage returns for reply i
Replies == [i \in 1..NumReplies |->
              ReplyDescs[i].pre \o RenderPays(ReplyDescs[i].pays, ReplyDescs[i].pad)
                \o ReplyDescs[i].post
                \o (IF ReplyDescs[i].tail = <<>> THEN <<>> ELSE TcOpen \o ReplyDescs[i].tail)]

\* PromptFactory.parseToolCall(fullResponse) for reply i
ReplyToolCall == [i \in 1..NumReplies |-> parseToolCall(Replies[i])]

----------------------------------------------------------------------------
(* PromptFactory.parsePlan and the plan SidebarProvider builds from it *)

\* <plan>
PlanOpen ==
  <<"<", "p", "l", "a", "n", ">">>

\* </plan>
PlanClose ==
  <<"<", "/", "p", "l", "a", "n", ">">>

\* the keys of a plan task
KeyId ==
  <<"i", "d">>
KeyTask ==
  <<"t", "a", "s", "k">>
KeyStatus ==
  <<"s", "t", "a", "t", "u", "s">>

\* the status texts
StatusPending ==
  <<"p", "e", "n", "d", "i", "n", "g">>
StatusInProgress ==
  <<"i", "n", "_", "p", "r", "o", "g", "r", "e", "s", "s">>
StatusDone ==
  <<"d", "o", "n", "e">>
StatusBlocked ==
  <<"b", "l", "o", "c", "k", "e", "d">>

\* the texts of the members of a plan task, by kind; <<>> = the member is absent
IdText ==
  [int |-> <<"\"", "i", "d", "\"", ":", "1">>,
   str |-> <<"\"", "i", "d", "\"", ":", "\"", "1", "\"">>,
   none |-> <<>>]

TaskText ==
  [str |-> <<"\"", "t", "a", "s", "k", "\"", ":", "\"", "a", "\"">>,
   num |-> <<"\"", "t", "a", "s", "k", "\"", ":", "5">>,
   none |-> <<>>]

StatusMember(value) == <<"\"">> \o KeyStatus \o <<"\"", ":">> \o value

Quoted(t) == <<"\"">> \o t \o <<"\"">>

StatusText ==
  [pending |-> StatusMember(Quoted(StatusPending)),
   in_progress |-> StatusMember(Quoted(StatusInProgress)),
   done |-> StatusMember(Quoted(StatusDone)),
   blocked |-> StatusMember(Quoted(StatusBlocked)),
   num |-> StatusMember(<<"5">>),
   none |-> <<>>]

\* the plan tasks the model writes: the valid ones and those with one fault
ElemDescs ==
  {e \in [id : {"int", "str", "none"}, task : {"str", "num", "none"},
          status : {"pending", "in_progress", "done", "blocked", "num", "none"}] :
     Cardinality({k \in {"id", "task", "status"} :
                    \/ k = "id" /\ e.id # "int"
                    \/ k = "task" /\ e.task # "str"
                    \/ k = "status" /\ e.status \notin Statuses}) <= 1}

\* the texts parts, the non-empty ones separated by commas
RECURSIVE Joined(_)
Joined(parts) ==
  IF parts = <<>> THEN <<>>
  ELSE IF Head(parts) = <<>> THEN Joined(Tail(parts))
  ELSE LET rest == Joined(Tail(parts))
       IN IF rest = <<>> THEN Head(parts) ELSE Head(parts) \o <<",">> \o rest

ElemText(e) ==
  <<"{">> \o Joined(<<IdText[e.id], TaskText[e.task], StatusText[e.status]>>) \o <<"}">>

\* the JSON array of the tasks es
ArrayText(es) == <<"[">> \o Joined([n \in 1..Len(es) |-> ElemText(es[n])]) \o <<"]">>

AValidElem == [id |-> "int", task |-> "str", status |-> "pending"]

\* the payloads between <plan> and </plan>: arrays of 1..MaxElems tasks, the
\* empty array, a task outside any array, a number, an array cut short, nothing
PlanPayloads ==
  {ArrayText(es) : es \in UNION {[1..k -> ElemDescs] : k \in 1..MaxElems}}
    \cup {<<"[", "]">>, ElemText(AValidElem), <<"5">>, <<"[">> \o ElemText(AValidElem), <<>>}

\* the responses: a message, then the plan block as the planner prompt shows it
PlanResponses ==
  {TxtMessage \o PlanOpen \o <<"\n">> \o pl \o <<"\n">> \o PlanClose : pl \in PlanPayloads}
    \cup {TxtMessage, PlanOpen \o ArrayText(<<AValidElem>>) \o PlanClose \o TxtMessage}

\* parsePlan returned null
NullPlan == [called |-> TRUE, found |-> FALSE, tasks |-> <<>>]

\* match[1] of response.match(/<plan>\s*([\s\S]*?)\s*<\/plan>/): ok FALSE if no match
PlanMatch(s) ==
  LET starts == {i \in 1..Len(s) :
                   /\ HasAt(s, i, PlanOpen)
                   /\ \E c \in (i + Len(PlanOpen))..Len(s) : HasAt(s, c, PlanClose)}
  IN IF starts = {} THEN [ok |-> FALSE, text |-> <<>>]
     ELSE LET k == SkipWs(s, Min(starts) + Len(PlanOpen))
              ends == {e \in (k - 1)..Len(s) : HasAt(s, SkipWs(s, e + 1), PlanClose)}
          IN [ok |-> TRUE, text |-> SubSeq(s, k, Min(ends))]

parsePlan(resp) ==
  LET m == PlanMatch(resp)
      parsed == JSONparse(m.text)
  IN IF m.ok /\ parsed.ok /\ parsed.val.t = "arr"
       THEN [called |-> TRUE, found |-> TRUE, tasks |-> parsed.val.f]
       ELSE NullPlan

JStr(t) == [t |-> "str", s |-> t, f |-> <<>>]

\* SidebarProvider: planTasks.map(t => ({ id: t.id, task: t.task, status: t.status || 'pending' }))
PlanOf(tasks) ==
  [n \in 1..Len(tasks) |->
     [id |-> JGet(tasks[n], KeyId),
      task |-> JGet(tasks[n], KeyTask),
      status |-> IF Truthy(JGet(tasks[n], KeyStatus)) THEN JGet(tasks[n], KeyStatus)
                 ELSE JStr(StatusPending)]]

----------------------------------------------------------------------------
(* Responses for PromptFactory.parseToolCall with members of every type *)

\* {"name":5,"arguments":{"file_path":"a"}}
PayNameNum ==
  <<"{", "\"", "n", "a", "m", "e", "\"", ":", "5", ",", "\"", "a", "r", "g", "u", "m",
    "e", "n", "t", "s", "\"", ":", "{", "\"", "f", "i", "l", "e", "_", "p", "a", "t",
    "h", "\"", ":", "\"", "a", "\"", "}", "}">>

\* {"name":"read_file","arguments":"a"}
PayArgsStr ==
  <<"{", "\"", "n", "a", "m", "e", "\"", ":", "\"", "r", "e", "a", "d", "_", "f", "i",
    "l", "e", "\"", ",", "\"", "a", "r", "g", "u", "m", "e", "n", "t", "s", "\"", ":",
    "\"", "a", "\"", "}">>

\* {"name":"read_file","arguments":5}
PayArgsNum ==
  <<"{", "\"", "n", "a", "m", "e", "\"", ":", "\"", "r", "e", "a", "d", "_", "f", "i",
    "l", "e", "\"", ",", "\"", "a", "r", "g", "u", "m", "e", "n", "t", "s", "\"", ":",
    "5", "}">>

\* {"name":"read_file","arguments":0}
PayArgsZero ==
  <<"{", "\"", "n", "a", "m", "e", "\"", ":", "\"", "r", "e", "a", "d", "_", "f", "i",
    "l", "e", "\"", ",", "\"", "a", "r", "g", "u", "m", "e", "n", "t", "s", "\"", ":",
    "0", "}">>

\* {"name":"","arguments":{}}
PayNameEmpty ==
  <<"{", "\"", "n", "a", "m", "e", "\"", ":", "\"", "\"", ",", "\"", "a", "r", "g",
    "u", "m", "e", "n", "t", "s", "\"", ":", "{", "}", "}">>

\* {"name":"read_file","arguments":[1]}
PayArgsArr ==
  <<"{", "\"", "n", "a", "m", "e", "\"", ":", "\"", "r", "e", "a", "d", "_", "f", "i",
    "l", "e", "\"", ",", "\"", "a", "r", "g", "u", "m", "e", "n", "t", "s", "\"", ":",
    "[", "1", "]", "}">>

ToolPayloads ==
  {PayRead, PayCmd, PayNoArgs, PayNameNum, PayArgsStr, PayArgsNum, PayArgsZero,
   PayNameEmpty, PayArgsArr, PayTrunc}

ToolResponses ==
  {TxtThinking \o TcOpen \o pay \o TcClose : pay \in ToolPayloads}

----------------------------------------------------------------------------
(* _executeTask: the tool-result message built from an IToolResult *)

\* the length above which result.output is cut, and the length it is cut to
OUTPUT_LIMIT == 10240

\* \n...(truncated)
TruncMarker ==
  <<"\n", ".", ".", ".", "(", "t", "r", "u", "n", "c", "a", "t", "e", "d", ")">>

\* <tool_result>\nOutput: 
ResultHead ==
  <<"<", "t", "o", "o", "l", "_", "r", "e", "s", "u", "l", "t", ">", "\n", "O", "u", "t",
    "p", "u", "t", ":", " ">>

\* \nStatus: 
ResultStatus ==
  <<"\n", "S", "t", "a", "t", "u", "s", ":", " ">>

\* \n</tool_result>
ResultTail ==
  <<"\n", "<", "/", "t", "o", "o", "l", "_", "r", "e", "s", "u", "l", "t", ">">>

StatusSuccess == <<"S", "u", "c", "c", "e", "s", "s">>
StatusError == <<"E", "r", "r", "o", "r">>

\* no result yet
NoResult == [output |-> <<>>, status |-> "success"]

\* the truncation with the bug of cutting an output of exactly OUTPUT_LIMIT characters
Truncate_AtLimit(output) ==
  IF Len(output) >= OUTPUT_LIMIT
    THEN SubSeq(output, 1, OUTPUT_LIMIT) \o TruncMarker
    ELSE output

\* truncatedOutput
Truncate(output) ==
  IF Len(output) > OUTPUT_LIMIT
    THEN SubSeq(output, 1, OUTPUT_LIMIT) \o TruncMarker
    ELSE output

\* the part of the message after the output
StatusPart(status) ==
  ResultStatus \o (IF status = "success" THEN StatusSuccess ELSE StatusError)
    \o ResultTail

\* the content of the user message pushed to history
ToolResultMessage(res) ==
  ResultHead \o Truncate(res.output) \o StatusPart(res.status)

\* outputs of the model: 0123456789012... of the given length
OutputDigits == <<"0", "1", "2", "3", "4", "5", "6", "7", "8", "9">>
OutputOf(len) == [k \in 1..len |-> OutputDigits[(k % 10) + 1]]

\* the output lengths tried: the shortest ones and those around OUTPUT_LIMIT
TruncSpan == 12
OutputLengths ==
  (0..3) \cup {l \in 0..(OUTPUT_LIMIT + TruncSpan + 1) : l >= OUTPUT_LIMIT - TruncSpan}

----------------------------------------------------------------------------
(* AgentLoop: the state after construction *)

\* parsePlan and parseToolCall not called yet
NoPlanTasks == [called |-> FALSE, found |-> FALSE, tasks |-> <<>>]
NoAction == [called |-> FALSE, tc |-> NoToolCall]

ExtractAtStart ==
  /\ assistantMessage = <<>>
  /\ planTasks = NoPlanTasks
  /\ currentPlan = <<>>
  /\ action = NoAction

\* no executeCommand / executeCommands call made yet
NoCall == [fn |-> "none", commands |-> <<>>, skip |-> FALSE]

\* a new TerminalService: _terminal undefined
TermAtStart ==
  /\ terminal = "none"
  /\ call = NoCall
  /\ phase = "idle"
  /\ choice = ""
  /\ sent = <<>>
  /\ copied = FALSE
  /\ ret = "none"
  /\ calls = 0

Init ==
  /\ ExtractAtStart
  /\ TermAtStart
  /\ plan \in [Tasks -> Statuses]
  /\ maxIter \in {-1, 0, 1, NumTasks}
  /\ running = FALSE
  /\ state = "IDLE"
  /\ resolver = 0
  /\ promiseVal = [r \in Runs |-> "none"]
  /\ pc = [r \in Runs |-> "idle"]
  /\ curTask = [r \in Runs |-> 0]
  /\ iterations = [r \in Runs |-> 0]
  /\ turn = [r \in Runs |-> 0]
  /\ history = [r \in Runs |-> <<>>]
  /\ reply = [r \in Runs |-> 0]
  /\ toolCall = [r \in Runs |-> NoToolCall]
  /\ nToolReplies = 0
  /\ resolvedBy = [r \in Runs |-> "none"]
  /\ stopMid = [r \in Runs |-> FALSE]
  /\ stopSeen = [r \in Runs |-> FALSE]
  /\ turnWaits = [r \in Runs |-> 0]
  /\ turnExecs = [r \in Runs |-> 0]
  /\ taskRequests = [r \in Runs |-> 0]
  /\ taskExecs = [r \in Runs |-> 0]
  /\ rejected = {}
  /\ rejMsgs = [t \in Tasks |-> 0]
  /\ emitted = <<>>
  /\ result = NoResult
  /\ resultMessage = <<>>
  /\ parser = InitParser
  /\ text = <<>>
  /\ pos = 0
  /\ nFeeds = 0
  /\ heldBack = FALSE
  /\ flushed = FALSE
  /\ made = <<>>

\* plan.find(t => t.status === 'pending'): the first pending task, 0 if none
FirstPending(p) ==
  IF \E t \in Tasks : p[t] = "pending"
    THEN Min({t \in Tasks : p[t] = "pending"})
    ELSE 0

\* an AgentEvent: its type and its task, state or nothing (0)
Ev(type, arg) == [type |-> type, arg |-> arg]

\* run(): the events of the finally block (_setState('IDLE'))
EvFinally == <<Ev("stateChanged", "IDLE")>>

\* run(): the events from the head of the while loop on
EvWhileHead(planV, iterV, runningV) ==
  IF ~runningV THEN EvFinally
  ELSE IF iterV >= maxIter \/ FirstPending(planV) = 0
    THEN <<Ev("loopFinished", 0)>> \o EvFinally
    ELSE <<Ev("taskStarted", FirstPending(planV))>>

\* run(): the events after _executeTask returned
EvTaskDone(r) ==
  <<Ev("taskCompleted", curTask[r])>>
    \o EvWhileHead([plan EXCEPT ![curTask[r]] = "done"], iterations[r] + 1, running)

\* the events of the catch block with the bug of not announcing the failure
EvTaskFailed_NoEvent(r) == EvFinally

\* run(): the events of the catch block and the finally block
EvTaskFailed(r) == <<Ev("taskFailed", curTask[r])>> \o EvFinally

\* _executeTask: the events from the head of the for loop on
EvForHead(r, turnV) ==
  IF turnV < MAX_TOOL_TURNS /\ running
    THEN <<Ev("stateChanged", "THINKING")>>
    ELSE EvTaskDone(r)

\* run(): the finally block; the locals of run() are gone when it returns
Finally(r, planV) ==
  /\ plan' = planV
  /\ running' = FALSE
  /\ state' = "IDLE"
  /\ pc' = [pc EXCEPT ![r] = "returned"]
  /\ iterations' = [iterations EXCEPT ![r] = 0]
  /\ curTask' = [curTask EXCEPT ![r] = 0]

\* the head of the while loop with the bug of ignoring maxIterations
WhileHead_NoCeiling(r, planV, iterV, runningV) ==
  LET t == FirstPending(planV)
  IN IF runningV /\ t # 0
       THEN /\ plan' = [planV EXCEPT ![t] = "in_progress"]
            /\ curTask' = [curTask EXCEPT ![r] = t]
            /\ pc' = [pc EXCEPT ![r] = "ctx"]
            /\ running' = runningV
            /\ iterations' = [iterations EXCEPT ![r] = iterV]
            /\ UNCHANGED state
       ELSE Finally(r, planV)

\* run(): the head of the while loop, up to the await inside _executeTask
WhileHead(r, planV, iterV, runningV) ==
  LET t == FirstPending(planV)
  IN IF runningV /\ iterV < maxIter /\ t # 0
       THEN /\ plan' = [planV EXCEPT ![t] = "in_progress"]
            /\ curTask' = [curTask EXCEPT ![r] = t]
            /\ pc' = [pc EXCEPT ![r] = "ctx"]
            /\ running' = runningV
            /\ iterations' = [iterations EXCEPT ![r] = iterV]
            /\ UNCHANGED state
       ELSE Finally(r, planV)

\* the completion of a task with the bug of marking every task of the plan done
TaskDone_AllDone(r) ==
  WhileHead(r, [t \in Tasks |-> "done"], iterations[r] + 1, running)

\* the completion of a task with the bug of not marking the task done
TaskDone_NotMarked(r) ==
  WhileHead(r, plan, iterations[r] + 1, running)

\* run(): _executeTask returned; the task is done and the while loop goes on
TaskDone(r) ==
  WhileHead(r, [plan EXCEPT ![curTask[r]] = "done"], iterations[r] + 1, running)

\* the catch block with the bug of leaving the task's status as it is
TaskFailed_KeepsStatus(r) ==
  Finally(r, plan)

\* run(): _executeTask threw; the task is pending again and the run ends
TaskFailed(r) ==
  Finally(r, [plan EXCEPT ![curTask[r]] = "pending"])

\* the head of the for loop with the bug of allowing one turn more
ForHead_OneMore(r, turnV) ==
  IF turnV <= MAX_TOOL_TURNS /\ running
    THEN /\ state' = "THINKING"
         /\ pc' = [pc EXCEPT ![r] = "thinking"]
         /\ UNCHANGED <<plan, running, curTask, iterations>>
    ELSE TaskDone(r)

\* _executeTask: the head of the for loop, up to the await of sendMessage
ForHead(r, turnV) ==
  IF turnV < MAX_TOOL_TURNS /\ running
    THEN /\ state' = "THINKING"
         /\ pc' = [pc EXCEPT ![r] = "thinking"]
         /\ UNCHANGED <<plan, running, curTask, iterations>>
    ELSE TaskDone(r)

\* the locals of _executeTask after a step of activation r (pc' is set before):
\* they are gone once _executeTask has returned; the step that suspends at the await
\* of sendMessage has called it, the one that suspends at the await of execute has
\* called execute
Locals(r, turnV, histV, replyV, tcV, waitsV, execsV) ==
  LET gone == pc'[r] \in {"ctx", "returned"}
  IN /\ turn' = [turn EXCEPT ![r] = IF gone THEN 0 ELSE turnV]
     /\ history' = [history EXCEPT ![r] = IF gone THEN <<>> ELSE histV]
     /\ reply' = [reply EXCEPT ![r] = IF gone THEN 0 ELSE replyV]
     /\ toolCall' = [toolCall EXCEPT ![r] = IF gone THEN NoToolCall ELSE tcV]
     /\ turnWaits' = [turnWaits EXCEPT ![r] = IF gone THEN 0 ELSE waitsV]
     /\ turnExecs' = [turnExecs EXCEPT ![r] = IF gone THEN 0 ELSE execsV]
     /\ taskRequests' = [taskRequests EXCEPT ![r] =
                           IF gone THEN 0
                           ELSE IF pc[r] # "thinking" /\ pc'[r] = "thinking" THEN @ + 1
                           ELSE @]
     /\ taskExecs' = [taskExecs EXCEPT ![r] =
                        IF gone THEN 0
                        ELSE IF pc[r] # "executing" /\ pc'[r] = "executing" THEN @ + 1
                        ELSE @]
     /\ stopMid' = [stopMid EXCEPT ![r] = FALSE]
     /\ stopSeen' = [stopSeen EXCEPT ![r] = IF pc'[r] = "returned" THEN FALSE ELSE @]

\* run(plan, ...) is called: activation r
run(r) ==
  /\ pc[r] = "idle"
  /\ r > 1 => pc[r - 1] # "idle"
  /\ IF running
       THEN /\ pc' = [pc EXCEPT ![r] = "returned"]
            /\ UNCHANGED <<plan, running, state, curTask, iterations, emitted>>
       ELSE /\ WhileHead(r, plan, 0, TRUE)
            /\ emitted' = EvWhileHead(plan, 0, TRUE)
  /\ UNCHANGED <<maxIter, resolver, promiseVal, turn, history, reply, toolCall,
                 nToolReplies, resolvedBy, stopMid, stopSeen, turnWaits, turnExecs,
                 taskRequests, taskExecs, rejected, rejMsgs>>
  /\ UNCHANGED <<parserVars, truncVars, extractVars, termVars>>

\* _executeTask: getContextItems() returned
getContextItemsReturns(r) ==
  /\ pc[r] = "ctx"
  /\ ForHead(r, 0)
  /\ emitted' = EvForHead(r, 0)
  /\ Locals(r, 0, <<"prompt">>, 0, NoToolCall, 0, 0)
  /\ UNCHANGED <<maxIter, resolver, promiseVal, nToolReplies, resolvedBy, rejected,
                 rejMsgs>>
  /\ UNCHANGED <<parserVars, truncVars, extractVars, termVars>>

\* _executeTask: sendMessage returned reply i; up to the await of the approval.
\* With counted, the replies that carry an action are counted and at most
\* MaxToolReplies of them arrive.
sendMessageReturnsWith(r, i, counted) ==
  /\ pc[r] = "thinking"
  /\ counted /\ ReplyToolCall[i].found => nToolReplies < MaxToolReplies
  /\ IF ~ReplyToolCall[i].found
       THEN /\ TaskDone(r)
            /\ emitted' = <<Ev("streamDone", 0)>> \o EvTaskDone(r)
            /\ UNCHANGED <<resolver, promiseVal, resolvedBy, nToolReplies>>
       ELSE /\ state' = "WAITING_FOR_TOOL"
            /\ emitted' = <<Ev("streamDone", 0), Ev("stateChanged", "WAITING_FOR_TOOL"),
                            Ev("waitingForTool", 0)>>
            /\ pc' = [pc EXCEPT ![r] = "waiting"]
            /\ resolver' = r
            /\ promiseVal' = [promiseVal EXCEPT ![r] = "pending"]
            /\ resolvedBy' = [resolvedBy EXCEPT ![r] = "none"]
            /\ nToolReplies' = IF counted THEN nToolReplies + 1 ELSE nToolReplies
            /\ UNCHANGED <<plan, running, curTask, iterations>>
  /\ Locals(r, turn[r], Append(history[r], "assistant"), i, ReplyToolCall[i],
            IF ReplyToolCall[i].found THEN turnWaits[r] + 1 ELSE turnWaits[r],
            turnExecs[r])
  /\ UNCHANGED <<maxIter, rejected, rejMsgs>>
  /\ UNCHANGED <<parserVars, truncVars, extractVars, termVars>>

sendMessageReturns(r, i) == sendMessageReturnsWith(r, i, TRUE)

\* sendMessage returned reply i, any number of replies carrying an action
sendMessageReturnsAny(r, i) == sendMessageReturnsWith(r, i, FALSE)

\* _executeTask: sendMessage threw; run() catches it
sendMessageThrows(r) ==
  /\ pc[r] = "thinking"
  /\ TaskFailed(r)
  /\ emitted' = EvTaskFailed(r)
  /\ Locals(r, 0, history[r], 0, NoToolCall, 0, 0)
  /\ UNCHANGED <<maxIter, resolver, promiseVal, nToolReplies, resolvedBy, rejected,
                 rejMsgs>>
  /\ UNCHANGED <<parserVars, truncVars, extractVars, termVars>>

\* the stored resolve function is called with v by the operation op
Resolve(v, op) ==
  /\ promiseVal' = [promiseVal EXCEPT ![resolver] = IF @ = "pending" THEN v ELSE @]
  /\ resolvedBy' = [resolvedBy EXCEPT ![resolver] =
                      IF promiseVal[resolver] = "pending" THEN op ELSE @]
  /\ resolver' = 0

approveToolExecution ==
  /\ IF resolver # 0
       THEN Resolve("true", "approve")
       ELSE UNCHANGED <<resolver, promiseVal, resolvedBy>>
  /\ UNCHANGED <<plan, maxIter, running, state, pc, curTask, iterations, turn, history,
                 reply, toolCall, nToolReplies, stopMid, stopSeen, turnWaits, turnExecs,
                 taskRequests, taskExecs, rejected, rejMsgs, emitted>>
  /\ UNCHANGED <<parserVars, truncVars, extractVars, termVars>>

rejectToolExecution ==
  /\ IF resolver # 0
       THEN Resolve("false", "reject")
       ELSE UNCHANGED <<resolver, promiseVal, resolvedBy>>
  /\ UNCHANGED <<plan, maxIter, running, state, pc, curTask, iterations, turn, history,
                 reply, toolCall, nToolReplies, stopMid, stopSeen, turnWaits, turnExecs,
                 taskRequests, taskExecs, rejected, rejMsgs, emitted>>
  /\ UNCHANGED <<parserVars, truncVars, extractVars, termVars>>

\* stop() with the bug of unblocking the wait as approved
stop_ResolvesTrue ==
  /\ running' = FALSE
  /\ IF resolver # 0
       THEN Resolve("true", "stop")
       ELSE UNCHANGED <<resolver, promiseVal, resolvedBy>>
  /\ stopMid' = [r \in Runs |-> stopMid[r] \/ pc[r] \in {"thinking", "executing"}]
  /\ stopSeen' = [r \in Runs |-> stopSeen[r] \/ pc[r] \notin {"idle", "returned"}]
  /\ UNCHANGED <<plan, maxIter, state, pc, curTask, iterations, turn, history, reply,
                 toolCall, nToolReplies, turnWaits, turnExecs, taskRequests,
                 taskExecs, rejected, rejMsgs, emitted>>
  /\ UNCHANGED <<parserVars, truncVars, extractVars, termVars>>

\* stop() with the bug of announcing IDLE itself
stop_EmitsIdle ==
  /\ running' = FALSE
  /\ IF resolver # 0
       THEN Resolve("false", "stop")
       ELSE UNCHANGED <<resolver, promiseVal, resolvedBy>>
  /\ stopMid' = [r \in Runs |-> stopMid[r] \/ pc[r] \in {"thinking", "executing"}]
  /\ stopSeen' = [r \in Runs |-> stopSeen[r] \/ pc[r] \notin {"idle", "returned"}]
  /\ state' = "IDLE"
  /\ emitted' = EvFinally
  /\ UNCHANGED <<plan, maxIter, pc, curTask, iterations, turn, history, reply,
                 toolCall, nToolReplies, turnWaits, turnExecs, taskRequests,
                 taskExecs, rejected, rejMsgs>>
  /\ UNCHANGED <<parserVars, truncVars, extractVars, termVars>>

stop ==
  /\ running' = FALSE
  /\ IF resolver # 0
       THEN Resolve("false", "stop")
       ELSE UNCHANGED <<resolver, promiseVal, resolvedBy>>
  /\ stopMid' = [r \in Runs |-> stopMid[r] \/ pc[r] \in {"thinking", "executing"}]
  /\ stopSeen' = [r \in Runs |-> stopSeen[r] \/ pc[r] \notin {"idle", "returned"}]
  /\ UNCHANGED <<plan, maxIter, state, pc, curTask, iterations, turn, history, reply,
                 toolCall, nToolReplies, turnWaits, turnExecs, taskRequests,
                 taskExecs, rejected, rejMsgs, emitted>>
  /\ UNCHANGED <<parserVars, truncVars, extractVars, termVars>>

\* how many messages of kind k the history h holds
Count(h, k) == Cardinality({n \in 1..Len(h) : h[n] = k})

\* the history after a rejection, with the bug of not recording it
RejectedHistory_Forgets(h) == h

\* _executeTask: the tool-result message pushed when the action is not approved
RejectedHistory(h) == Append(h, "rejected")

\* the history after a tool result, with the bug of putting it in front
ResultHistory_Prepends(h) == <<"result">> \o h

\* _executeTask: the tool-result message pushed after ToolHandler.execute returned
ResultHistory(h) == Append(h, "result")

\* _executeTask: the approval promise is settled and the await resumes
approvalResumes(r) ==
  /\ pc[r] = "waiting"
  /\ promiseVal[r] \in {"true", "false"}
  /\ promiseVal' = [promiseVal EXCEPT ![r] = "none"]
  /\ IF promiseVal[r] = "false"
       THEN /\ rejected' = rejected \cup {curTask[r]}
            /\ rejMsgs' = [rejMsgs EXCEPT ![curTask[r]] =
                             @ + Count(RejectedHistory(history[r]), "rejected")
                               - Count(history[r], "rejected")]
            /\ resolvedBy' = [resolvedBy EXCEPT ![r] = "none"]
            /\ TaskDone(r)
            /\ emitted' = EvTaskDone(r)
            /\ Locals(r, turn[r], RejectedHistory(history[r]), reply[r],
                      toolCall[r], turnWaits[r], turnExecs[r])
       ELSE /\ state' = "EXECUTING"
            /\ emitted' = <<Ev("stateChanged", "EXECUTING")>>
            /\ pc' = [pc EXCEPT ![r] = "executing"]
            /\ Locals(r, turn[r], history[r], reply[r], toolCall[r], turnWaits[r],
                      turnExecs[r] + 1)
            /\ UNCHANGED <<plan, running, curTask, iterations, rejected, rejMsgs,
                           resolvedBy>>
  /\ UNCHANGED <<maxIter, resolver, nToolReplies>>
  /\ UNCHANGED <<parserVars, truncVars, extractVars, termVars>>

\* ToolHandler.execute(tc.name, tc.arguments) rejects: read_file and write_file catch
\* every error, an unknown name returns an error result, and _runCommand calls
\* child_process.exec outside any try, which throws a TypeError when the command
\* is not a string
ExecThrows(tc) ==
  /\ tc.name = [t |-> "str", s |-> ToolRunCommand, f |-> <<>>]
  /\ JGet(tc.arguments, KeyCommand).t # "str"

\* _executeTask: ToolHandler.execute returned; the result is fed back and the loop turns
executeReturns(r) ==
  /\ pc[r] = "executing"
  /\ ~ExecThrows(toolCall[r])
  /\ ForHead(r, turn[r] + 1)
  /\ emitted' = <<Ev("toolExecuted", 0)>> \o EvForHead(r, turn[r] + 1)
  /\ Locals(r, turn[r] + 1, ResultHistory(history[r]), 0, NoToolCall, 0, 0)
  /\ resolvedBy' = [resolvedBy EXCEPT ![r] = "none"]
  /\ UNCHANGED <<maxIter, resolver, promiseVal, nToolReplies, rejected, rejMsgs>>
  /\ UNCHANGED <<parserVars, truncVars, extractVars, termVars>>

\* _executeTask: ToolHandler.execute threw; run() catches it
executeThrows(r) ==
  /\ pc[r] = "executing"
  /\ ExecThrows(toolCall[r])
  /\ TaskFailed(r)
  /\ emitted' = EvTaskFailed(r)
  /\ Locals(r, 0, history[r], 0, NoToolCall, 0, 0)
  /\ resolvedBy' = [resolvedBy EXCEPT ![r] = "none"]
  /\ UNCHANGED <<maxIter, resolver, promiseVal, nToolReplies, rejected, rejMsgs>>
  /\ UNCHANGED <<parserVars, truncVars, extractVars, termVars>>

Next ==
  \/ \E r \in Runs : run(r)
  \/ \E r \in Runs : getContextItemsReturns(r)
  \/ \E r \in Runs : \E i \in 1..NumReplies : sendMessageReturns(r, i)
  \/ \E r \in Runs : sendMessageThrows(r)
  \/ approveToolExecution
  \/ rejectToolExecution
  \/ stop
  \/ \E r \in Runs : approvalResumes(r)
  \/ \E r \in Runs : executeReturns(r)
  \/ \E r \in Runs : executeThrows(r)

Spec == Init /\ [][Next]_vars

\* the steps the JavaScript event loop takes by itself once their await has settled;
\* approve, reject, stop and run are calls of the user interface and need not happen
FairSpec ==
  /\ Spec
  /\ \A r \in Runs :
       /\ WF_vars(getContextItemsReturns(r))
       /\ WF_vars(sendMessageThrows(r) \/ \E i \in 1..NumReplies : sendMessageReturns(r, i))
       /\ WF_vars(approvalResumes(r))
       /\ WF_vars(executeReturns(r) \/ executeThrows(r))

----------------------------------------------------------------------------
(* The activations of run() with the fragments of the reply: while sendMessage *)
(* is pending its onChunk callback emits a streamChunk event per fragment      *)

\* _executeTask: the onChunk callback passed to sendMessage is called; AIService
\* calls it from the data handler of the response stream, before the promise of
\* sendMessage is settled by the end or the error of that stream
onChunk(r) ==
  /\ pc[r] = "thinking"
  /\ emitted' = <<Ev("streamChunk", 0)>>
  /\ UNCHANGED <<plan, maxIter, running, state, resolver, promiseVal, pc, curTask,
                 iterations, turn, history, reply, toolCall, nToolReplies, resolvedBy,
                 stopMid, stopSeen, turnWaits, turnExecs, taskRequests, taskExecs,
                 rejected, rejMsgs>>
  /\ UNCHANGED <<parserVars, truncVars, extractVars, termVars>>

\* one reply of each kind the turn loop tells apart: without action, with an
\* action ToolHandler.execute returns a result for, with one it rejects
EventReplies ==
  { Min({i \in 1..NumReplies : ~ReplyToolCall[i].found}),
    Min({i \in 1..NumReplies : ReplyToolCall[i].found /\ ~ExecThrows(ReplyToolCall[i])}),
    Min({i \in 1..NumReplies : ReplyToolCall[i].found /\ ExecThrows(ReplyToolCall[i])}) }

EventNext ==
  \/ \E r \in Runs : run(r)
  \/ \E r \in Runs : getContextItemsReturns(r)
  \/ \E r \in Runs : onChunk(r)
  \/ \E r \in Runs : \E i \in EventReplies : sendMessageReturns(r, i)
  \/ \E r \in Runs : sendMessageThrows(r)
  \/ approveToolExecution
  \/ rejectToolExecution
  \/ stop
  \/ \E r \in Runs : approvalResumes(r)
  \/ \E r \in Runs : executeReturns(r)
  \/ \E r \in Runs : executeThrows(r)

EventSpec == Init /\ [][EventNext]_vars

----------------------------------------------------------------------------
(* One activation of run() against a model that may answer every turn with an *)
(* action, so that the turn loop of a task runs to its ceiling                 *)

TurnNext ==
  \/ run(1)
  \/ getContextItemsReturns(1)
  \/ \E i \in 1..NumReplies : sendMessageReturnsAny(1, i)
  \/ sendMessageThrows(1)
  \/ approveToolExecution
  \/ rejectToolExecution
  \/ stop
  \/ approvalResumes(1)
  \/ executeReturns(1)
  \/ executeThrows(1)

TurnSpec == Init /\ [][TurnNext]_vars

----------------------------------------------------------------------------
(* A tool result of any length around the limit and either status is fed back *)

TruncInit ==
  /\ ExtractAtStart
  /\ TermAtStart
  /\ result \in [output : {OutputOf(l) : l \in OutputLengths},
                  status : {"success", "error"}]
  /\ resultMessage = <<>>
  /\ parser = InitParser
  /\ text = <<>>
  /\ pos = 0
  /\ nFeeds = 0
  /\ heldBack = FALSE
  /\ flushed = FALSE
  /\ made = <<>>
  /\ plan = [t \in Tasks |-> "pending"]
  /\ maxIter = 1
  /\ running = FALSE
  /\ state = "IDLE"
  /\ resolver = 0
  /\ promiseVal = [r \in Runs |-> "none"]
  /\ pc = [r \in Runs |-> "idle"]
  /\ curTask = [r \in Runs |-> 0]
  /\ iterations = [r \in Runs |-> 0]
  /\ turn = [r \in Runs |-> 0]
  /\ history = [r \in Runs |-> <<>>]
  /\ reply = [r \in Runs |-> 0]
  /\ toolCall = [r \in Runs |-> NoToolCall]
  /\ nToolReplies = 0
  /\ resolvedBy = [r \in Runs |-> "none"]
  /\ stopMid = [r \in Runs |-> FALSE]
  /\ stopSeen = [r \in Runs |-> FALSE]
  /\ turnWaits = [r \in Runs |-> 0]
  /\ turnExecs = [r \in Runs |-> 0]
  /\ taskRequests = [r \in Runs |-> 0]
  /\ taskExecs = [r \in Runs |-> 0]
  /\ rejected = {}
  /\ rejMsgs = [t \in Tasks |-> 0]
  /\ emitted = <<>>

\* _executeTask, lines 261-270: the output is truncated and the message pushed
pushToolResult ==
  /\ resultMessage = <<>>
  /\ resultMessage' = ToolResultMessage(result)
  /\ UNCHANGED result
  /\ UNCHANGED <<agentVars, parserVars, extractVars, termVars>>

TruncNext == pushToolResult

TruncSpec == TruncInit /\ [][TruncNext]_vars

----------------------------------------------------------------------------
(* The stream parser fed one response, cut into fragments at any positions *)

ParserInit ==
  /\ ExtractAtStart
  /\ TermAtStart
  /\ text \in Texts
  /\ parser = InitParser
  /\ pos = 0
  /\ nFeeds = 0
  /\ heldBack = FALSE
  /\ flushed = FALSE
  /\ made = <<>>
  /\ plan = [t \in Tasks |-> "pending"]
  /\ maxIter = 1
  /\ running = FALSE
  /\ state = "IDLE"
  /\ resolver = 0
  /\ promiseVal = [r \in Runs |-> "none"]
  /\ pc = [r \in Runs |-> "idle"]
  /\ curTask = [r \in Runs |-> 0]
  /\ iterations = [r \in Runs |-> 0]
  /\ turn = [r \in Runs |-> 0]
  /\ history = [r \in Runs |-> <<>>]
  /\ reply = [r \in Runs |-> 0]
  /\ toolCall = [r \in Runs |-> NoToolCall]
  /\ nToolReplies = 0
  /\ resolvedBy = [r \in Runs |-> "none"]
  /\ stopMid = [r \in Runs |-> FALSE]
  /\ stopSeen = [r \in Runs |-> FALSE]
  /\ turnWaits = [r \in Runs |-> 0]
  /\ turnExecs = [r \in Runs |-> 0]
  /\ taskRequests = [r \in Runs |-> 0]
  /\ taskExecs = [r \in Runs |-> 0]
  /\ rejected = {}
  /\ rejMsgs = [t \in Tasks |-> 0]
  /\ emitted = <<>>
  /\ result = NoResult
  /\ resultMessage = <<>>

\* a streamChunk message: the next n characters of the response arrive
FeedChunk(n) ==
  /\ ~flushed
  /\ pos + n <= Len(text)
  /\ parser' = appendAgentChunk(parser, SubSeq(text, pos + 1, pos + n))
  /\ pos' = pos + n
  /\ nFeeds' = IF nFeeds < 2 THEN nFeeds + 1 ELSE 2
  /\ heldBack' = (heldBack \/ (parser'.st # "idle" /\ parser'.raw # <<>>))
  /\ UNCHANGED <<text, flushed, made>>
  /\ UNCHANGED <<agentVars, truncVars, extractVars, termVars>>

\* the streamDone message: finalizeStream
Flush ==
  /\ ~flushed
  /\ pos = Len(text)
  /\ parser' = finalizeStream(parser)
  /\ flushed' = TRUE
  /\ UNCHANGED <<text, pos, nFeeds, heldBack, made>>
  /\ UNCHANGED <<agentVars, truncVars, extractVars, termVars>>

ParserNext ==
  \/ \E n \in 1..(Len(text) - pos) : FeedChunk(n)
  \/ Flush

ParserSpec == ParserInit /\ [][ParserNext]_vars

----------------------------------------------------------------------------
(* Claims about AgentLoop *)

Active(r) == pc[r] \notin {"idle", "returned"}

\* C1: ToolHandler.execute runs for an action only after approveToolExecution()
\* was called while that action was awaiting approval; when the wait of an action
\* was settled by rejectToolExecution() or stop(), the await resumes without
\* executing it and the task's turn loop ends.
C1_ExecuteOnlyAfterApprove ==
  /\ [](\A r \in Runs :
          (pc[r] = "executing" \/ turnExecs[r] > 0) => resolvedBy[r] = "approve")
  /\ [][\A r \in Runs :
          (pc[r] = "waiting" /\ resolvedBy[r] \in {"reject", "stop"}) =>
            /\ pc'[r] \in {"waiting", "ctx", "returned"}
            /\ turnExecs'[r] = 0]_vars

\* C1 witness: a tool is executing (approved, and stop() was called before the
\* await resumed or after) in a run where another action was rejected earlier
C1_Witness ==
  \E r \in Runs : pc[r] = "executing" /\ resolvedBy[r] = "approve" /\ ~running
                  /\ rejected # {}

\* C2 (as claimed): once stop() was called during a run, the run terminates without
\* any further approve / reject / stop call.
C2_StopLeadsToReturn ==
  \A r \in Runs : stopSeen[r] ~> (pc[r] = "returned")

\* C3 (as claimed): after a stop() that came while the run was THINKING or EXECUTING,
\* the next thing the run does is return: no waitingForTool, no approval wait, no
\* tool execution, no further model request.
C3_StopMidHalts ==
  [][\A r \in Runs : (stopMid[r] /\ pc'[r] # pc[r]) => pc'[r] = "returned"]_vars

\* C4 (as claimed): at most one task loop is active at any time and no two tool
\* executions overlap.
C4_SingleLoop ==
  /\ Cardinality({r \in Runs : Active(r)}) <= 1
  /\ Cardinality({r \in Runs : pc[r] = "executing"}) <= 1

\* C5 (as claimed): at most one action is awaiting approval; no unresolved wait has
\* lost the stored resolver to a later wait.
C5_OnePendingApproval ==
  /\ Cardinality({r \in Runs : pc[r] = "waiting" /\ promiseVal[r] = "pending"}) <= 1
  /\ \A r \in Runs : (pc[r] = "waiting" /\ promiseVal[r] = "pending") => resolver = r

\* C6 (as claimed): while a run is going on, at most one task of the plan is
\* in_progress.
C6_OneInProgress ==
  (\E r \in Runs : Active(r)) => Cardinality({t \in Tasks : plan[t] = "in_progress"}) <= 1

\* an action payload is well-formed: a JSON object with a non-empty string name
\* and an object arguments
WellFormedPayload(p) ==
  LET v == JSONparse(p)
  IN /\ v.ok
     /\ v.val.t = "obj"
     /\ JGet(v.val, KeyName).t = "str"
     /\ JGet(v.val, KeyName).s # <<>>
     /\ JGet(v.val, KeyArguments).t = "obj"

\* the action a payload denotes
PayloadAction(p) ==
  [found |-> TRUE, name |-> JGet(JSONparse(p).val, KeyName),
   arguments |-> JGet(JSONparse(p).val, KeyArguments)]

\* per reply: its first payload is well-formed; the action that payload denotes
FirstWellFormed ==
  [i \in 1..NumReplies |->
     ReplyDescs[i].pays # <<>> /\ WellFormedPayload(ReplyDescs[i].pays[1])]

FirstAction ==
  [i \in 1..NumReplies |->
     IF FirstWellFormed[i] THEN PayloadAction(ReplyDescs[i].pays[1]) ELSE NoToolCall]

\* C8: for a reply whose first action payload is well-formed, whatever payloads
\* follow, the action extracted is that first payload, and the turn emits exactly
\* one waitingForTool event, carrying it, and executes at most one tool before the
\* next model request.
C8_FirstActionOnly ==
  /\ \A i \in 1..NumReplies : FirstWellFormed[i] => ReplyToolCall[i] = FirstAction[i]
  /\ \A r \in Runs :
       /\ (reply[r] # 0 /\ FirstWellFormed[reply[r]]) =>
            /\ pc[r] \in {"waiting", "executing"}
            /\ toolCall[r] = FirstAction[reply[r]]
            /\ turnWaits[r] = 1
            /\ turnExecs[r] = IF pc[r] = "executing" THEN 1 ELSE 0
       /\ turnWaits[r] <= 1 /\ turnExecs[r] <= 1

\* C8 witness: a tool is executing for a reply that carries two payloads
C8_Witness ==
  \E r \in Runs : pc[r] = "executing" /\ reply[r] # 0
                  /\ Len(ReplyDescs[reply[r]].pays) = 2
                  /\ FirstWellFormed[reply[r]]

\* everything but the approval promise and its resolver
NonApprovalVars ==
  <<plan, maxIter, running, state, pc, curTask, iterations, turn, history, reply,
    toolCall, nToolReplies, stopMid, stopSeen, turnWaits, turnExecs, taskRequests,
    taskExecs, rejected, rejMsgs, emitted, parserVars>>

\* the activations suspended on an approval wait that is still unresolved
Outstanding == {r \in Runs : pc[r] = "waiting" /\ promiseVal[r] = "pending"}

\* C9 (as claimed): a call of approveToolExecution() or rejectToolExecution()
\* changes nothing but the approval promise and the stored resolver; with no wait
\* outstanding it changes nothing at all; with a wait outstanding it settles that
\* wait, and nothing else, and clears the resolver, so that a further call before
\* the next wait has no effect.
C9_ApprovalFrame ==
  [][(approveToolExecution \/ rejectToolExecution) =>
       /\ UNCHANGED NonApprovalVars
       /\ IF Outstanding = {}
            THEN UNCHANGED <<resolver, promiseVal, resolvedBy>>
            ELSE /\ resolver' = 0
                 /\ \A r \in Outstanding : promiseVal'[r] \in {"true", "false"}
                 /\ \A q \in Runs \ Outstanding : promiseVal'[q] = promiseVal[q]]_vars

\* C10: when the await of a rejected action (rejectToolExecution(), or stop() while
\* suspended) resumes, exactly one Rejected tool-result message is appended to the
\* task's history and the task's turn loop ends; afterwards no model request is in
\* flight and no tool is offered or executing for that task.
C10_RejectionEndsTask ==
  /\ [][\A r \in Runs :
          (pc[r] = "waiting" /\ promiseVal[r] = "false" /\ pc'[r] # "waiting") =>
            /\ rejMsgs[curTask[r]] = 0
            /\ rejMsgs'[curTask[r]] = 1
            /\ pc'[r] \in {"ctx", "returned"}
            /\ plan'[curTask[r]] = "done"
            /\ curTask[r] \in rejected']_vars
  /\ [](/\ \A t \in Tasks : rejMsgs[t] = IF t \in rejected THEN 1 ELSE 0
        /\ \A r \in Runs :
             pc[r] \in {"thinking", "waiting", "executing"} =>
               /\ curTask[r] \notin rejected
               /\ Count(history[r], "rejected") = 0)

\* C10 witness: a task was rejected and the run has gone on to the next task
C10_Witness ==
  \E r \in Runs : pc[r] = "thinking" /\ rejected # {} /\ curTask[r] \notin rejected

\* how many events of the given type the batch evs holds
CountType(evs, type) == Cardinality({n \in 1..Len(evs) : evs[n].type = type})

\* C11: when sendMessage throws during a turn of a task, the task goes from
\* in_progress back to pending, exactly one taskFailed event is emitted, for that
\* task, no task is started (no taskStarted event, no other status changes), and
\* the run returns leaving the state IDLE.
C11_TransportFailure ==
  [][\A r \in Runs :
       sendMessageThrows(r) =>
         /\ plan[curTask[r]] = "in_progress"
         /\ plan'[curTask[r]] = "pending"
         /\ \A t \in Tasks \ {curTask[r]} : plan'[t] = plan[t]
         /\ CountType(emitted', "taskFailed") = 1
         /\ Count(emitted', Ev("taskFailed", curTask[r])) = 1
         /\ CountType(emitted', "taskStarted") = 0
         /\ emitted'[Len(emitted')] = Ev("stateChanged", "IDLE")
         /\ pc'[r] = "returned"
         /\ state' = "IDLE"]_vars

\* C12: no step that leaves ToolHandler.execute fails the task: whatever the tool
\* name and the arguments, the step emits no taskFailed event and does not put the
\* task back to pending (the result is fed back to the model instead).
C12_ExecuteNeverThrows ==
  [][\A r \in Runs :
       pc[r] = "executing" /\ pc'[r] # "executing" =>
         /\ CountType(emitted', "taskFailed") = 0
         /\ plan'[curTask[r]] # "pending"]_vars

\* C13: within one task at most 20 model requests are sent and at most 20 tools
\* are executed, whatever the replies, the approvals and maxIterations.
C13_TurnCeiling ==
  \A r \in Runs : taskRequests[r] <= 20 /\ taskExecs[r] <= 20

\* C13 witness: the twentieth tool of a task is executing after its twentieth
\* model request, and maxIterations is not what bounds it
C13_Witness ==
  \E r \in Runs : /\ pc[r] = "executing"
                  /\ taskRequests[r] = 20
                  /\ taskExecs[r] = 20
                  /\ maxIter < 20

\* activation r is inside _executeTask
InTask(r) == pc[r] \in {"ctx", "thinking", "waiting", "executing"}

\* this step is activation r marking its task done (lines 165-168 of run())
CompletesTask(r) ==
  /\ InTask(r)
  /\ pc'[r] \in {"ctx", "returned"}
  /\ pc'[r] # pc[r] \/ curTask'[r] # curTask[r]
  /\ plan'[curTask[r]] = "done"

\* this step is activation r completing the task that brings it to maxIterations
ReachesCeiling(r) == CompletesTask(r) /\ iterations[r] + 1 >= maxIter

\* what C14 says of every run, whether or not loopFinished is emitted: a run is
\* never in a task beyond its maxIterations-th; at the ceiling it returns, starts
\* no task and leaves the other tasks as they are; with maxIterations <= 0 a
\* run() call returns at once without touching the plan
CeilingStartsNothing ==
  \A r \in Runs :
    /\ pc'[r] \in {"ctx", "thinking", "waiting", "executing"}
         => iterations'[r] + 1 <= maxIter
    /\ ReachesCeiling(r) =>
         /\ pc'[r] = "returned"
         /\ CountType(emitted', "taskStarted") = 0
         /\ \A t \in Tasks \ {curTask[r]} : plan'[t] = plan[t]
    /\ pc[r] = "idle" /\ pc'[r] # "idle" /\ maxIter <= 0 =>
         /\ pc'[r] = "returned"
         /\ plan' = plan

\* C14 as stated: a run starts at most maxIterations tasks, and the step that
\* completes its maxIterations-th task emits loopFinished, starts no further task
\* and leaves the remaining tasks untouched; with maxIterations <= 0 no task is
\* started.
C14_Ceiling ==
  [][/\ CeilingStartsNothing
     /\ \A r \in Runs :
          ReachesCeiling(r) => CountType(emitted', "loopFinished") = 1]_vars

\* C14 amended: the same, but loopFinished is emitted at the ceiling exactly when
\* stop() has not been called in the meantime (_running still true); a stopped
\* run ends without loopFinished.
C14_CeilingUnlessStopped ==
  [][/\ CeilingStartsNothing
     /\ \A r \in Runs :
          ReachesCeiling(r) =>
            CountType(emitted', "loopFinished") = (IF running THEN 1 ELSE 0)]_vars

\* C14 witness: with maxIterations 1 the run completed the first task, emitted
\* loopFinished and returned with the second task still pending
C14_Witness ==
  \E r \in Runs :
    /\ pc[r] = "returned"
    /\ maxIter = 1
    /\ emitted = <<Ev("taskCompleted", 1), Ev("loopFinished", 0),
                   Ev("stateChanged", "IDLE")>>
    /\ plan[1] = "done"
    /\ plan[2] = "pending"

\* the output embedded in the pushed message: what stands between the head and
\* the status part
EmbeddedOutput ==
  SubSeq(resultMessage, Len(ResultHead) + 1,
         Len(resultMessage) - Len(StatusPart(result.status)))

\* C15: the output embedded in the tool-result message is result.output itself
\* when its length is at most 10240, and otherwise its first 10240 characters
\* followed by "\n...(truncated)".
C15_TruncationExact ==
  resultMessage # <<>> =>
    LET L == Len(result.output)
    IN /\ SubSeq(resultMessage, 1, Len(ResultHead)) = ResultHead
       /\ L <= 10240 => EmbeddedOutput = result.output
       /\ L > 10240 =>
            /\ Len(EmbeddedOutput) = 10240 + Len(TruncMarker)
            /\ \A k \in 1..10240 : EmbeddedOutput[k] = result.output[k]
            /\ \A k \in 1..Len(TruncMarker) : EmbeddedOutput[10240 + k] = TruncMarker[k]

\* C15 witness: an output of exactly 10240 characters was embedded unchanged
C15_Witness ==
  /\ resultMessage # <<>>
  /\ Len(result.output) = 10240
  /\ Len(EmbeddedOutput) = 10240

\* the fields of the AgentLoop and the locals of its activations
LoopState ==
  <<plan, maxIter, running, state, resolver, promiseVal, pc, curTask, iterations,
    turn, history, reply, toolCall>>

\* C16: a stop() call emits no event; it leaves _running false and no resolver
\* stored, and called in such a state (right after another stop(), or with no run
\* active) it changes nothing; the step in which a stopped run returns emits
\* stateChanged IDLE exactly once and its one task-ending event exactly once
\* (taskCompleted, or taskFailed if the task threw).
C16_IdempotentStop ==
  [][/\ stop =>
          /\ emitted' = emitted
          /\ running' = FALSE
          /\ resolver' = 0
          /\ ~running /\ resolver = 0 => UNCHANGED LoopState
          /\ (\A r \in Runs : ~InTask(r)) => UNCHANGED LoopState
     /\ \A r \in Runs :
          stopSeen[r] /\ pc[r] # "returned" /\ pc'[r] = "returned" =>
            /\ Count(emitted', Ev("stateChanged", "IDLE")) = 1
            /\ CountType(emitted', "taskCompleted") + CountType(emitted', "taskFailed") = 1
            /\ state' = "IDLE"]_vars

\* C16 witness: a run was stopped during its first task: it completed that task,
\* announced IDLE and returned without loopFinished, the second task not started
C16_Witness ==
  \E r \in Runs :
    /\ pc[r] = "returned"
    /\ maxIter = NumTasks
    /\ emitted = <<Ev("taskCompleted", 1), Ev("stateChanged", "IDLE")>>
    /\ plan[2] = "pending"
    /\ ~running
    /\ resolver = 0

\* a history that starts with the one task instruction and then alternates
\* assistant reply, user tool-result; a Rejected tool-result can only be the last
AlternatingHistory(h) ==
  /\ h # <<>>
  /\ h[1] = "prompt"
  /\ \A n \in 2..Len(h) :
       /\ n % 2 = 0 => h[n] = "assistant"
       /\ n % 2 = 1 => h[n] \in {"result", "rejected"}
       /\ h[n] = "rejected" => n = Len(h)

\* C17: the history of a task starts as the single instruction of that task
\* (nothing of an earlier task), only grows by one message appended at its end
\* while the task lasts, the message being the assistant reply when sendMessage
\* returns and the tool result when execute returns, and always alternates
\* assistant / tool-result after the instruction, the Rejected message included.
C17_HistoryAppendOnly ==
  [][\A r \in Runs :
       LET h == history[r]
           g == history'[r]
       IN /\ g # <<>> => AlternatingHistory(g)
          /\ h = <<>> /\ g # <<>> => g = <<"prompt">> /\ pc[r] = "ctx"
          /\ h # <<>> /\ g # <<>> =>
               \/ g = h
               \/ g = Append(h, "assistant") /\ pc[r] = "thinking"
               \/ g = Append(h, "result") /\ pc[r] = "executing"
          /\ pc'[r] = "waiting" => AlternatingHistory(RejectedHistory(g))
          /\ pc'[r] \in {"thinking", "waiting", "executing"} => g # <<>>]_vars

\* C17 witness: the second task of a run, whose first task used a tool, has its
\* own history of instruction, reply and tool result
C17_Witness ==
  \E r \in Runs :
    /\ iterations[r] = 1
    /\ plan[1] = "done"
    /\ curTask[r] = 2
    /\ nToolReplies = 2
    /\ pc[r] = "thinking"
    /\ history[r] = <<"prompt", "assistant", "result">>

\* C25: an approved action starts executing once, with the assistant reply that
\* held it last in the history; every step that leaves ToolHandler.execute emits
\* exactly one toolExecuted event and, where the task goes on, has appended
\* exactly one tool-result message and only then sends the next model request;
\* no other step emits toolExecuted or starts an execution.
C25_ExecutedOnce ==
  [][\A r \in Runs :
       /\ (pc[r] # "executing" /\ pc'[r] = "executing") =>
            /\ pc[r] = "waiting" /\ promiseVal[r] = "true"
            /\ turnExecs'[r] = 1
            /\ history[r][Len(history[r])] = "assistant"
            /\ history'[r] = history[r]
       /\ (pc[r] = "executing" /\ pc'[r] # "executing") =>
            /\ CountType(emitted', "toolExecuted") = 1
            /\ pc'[r] = "thinking" =>
                 /\ history'[r] = Append(history[r], "result")
                 /\ turnExecs'[r] = 0
       /\ (emitted' # emitted /\ \A q \in Runs : pc[q] # "executing") =>
            CountType(emitted', "toolExecuted") = 0
       /\ (pc[r] \notin {"thinking", "ctx"} /\ pc'[r] = "thinking") => pc[r] = "executing"]_vars

\* the status changes run() makes: selection, completion, failure
StatusChanges ==
  {<<"pending", "in_progress">>, <<"in_progress", "done">>, <<"in_progress", "pending">>}

\* C26: every step changes the status of a task only from pending to
\* in_progress, from in_progress to done or from in_progress to pending; the
\* task is the one an activation selects in that step or the one it had
\* selected; a done task never changes; the plan keeps the same tasks.
C26_StatusTransitions ==
  [][/\ DOMAIN plan' = DOMAIN plan
     /\ \A t \in Tasks :
          plan'[t] # plan[t] =>
            /\ <<plan[t], plan'[t]>> \in StatusChanges
            /\ plan'[t] = "in_progress" => \E r \in Runs : curTask'[r] = t /\ curTask[r] # t
            /\ plan[t] = "in_progress" => \E r \in Runs : curTask[r] = t /\ curTask'[r] # t]_vars

\* C26 witness: a later activation has completed the first task and selected
\* the second one, after the first activation has returned
C26_Witness ==
  /\ pc[1] = "returned"
  /\ \E r \in Runs \ {1} :
       /\ iterations[r] = 1
       /\ curTask[r] = 2
       /\ plan[1] = "done"
       /\ plan[2] = "in_progress"

\* this step is sendMessage returning, to activation r, a reply parseToolCall
\* extracts no action from: the only step that leaves THINKING with a streamDone
\* event, the local toolCall being null
ActionFreeReply(r) ==
  /\ pc[r] = "thinking"
  /\ pc'[r] # "thinking"
  /\ CountType(emitted', "streamDone") = 1
  /\ ~toolCall'[r].found

\* C27: when the reply to the first model request of a task holds no extractable
\* action, that step completes the task: one model request was sent for it, no
\* tool was awaited or executed, no waitingForTool event is emitted, the task is
\* marked done with one taskCompleted event, and the activation has left it.
C27_ActionFreeFirstTurn ==
  [][\A r \in Runs :
       (ActionFreeReply(r) /\ turn[r] = 0) =>
         /\ taskRequests[r] = 1
         /\ taskExecs[r] = 0
         /\ turnWaits[r] = 0
         /\ CountType(emitted', "waitingForTool") = 0
         /\ Count(emitted', Ev("taskCompleted", curTask[r])) = 1
         /\ CountType(emitted', "taskFailed") = 0
         /\ plan'[curTask[r]] = "done"
         /\ curTask'[r] # curTask[r]
         /\ pc'[r] \in {"ctx", "returned"}]_vars

\* C27 witness: no reply has carried an action so far, and the last step was a
\* reply that completed the first task and started the second
C27_Witness ==
  /\ nToolReplies = 0
  /\ rejected = {}
  /\ plan[1] = "done"
  /\ \E r \in Runs : curTask[r] = 2 /\ iterations[r] = 1 /\ pc[r] = "ctx"
  /\ CountType(emitted, "streamDone") = 1
  /\ CountType(emitted, "taskCompleted") = 1
  /\ CountType(emitted, "taskStarted") = 1

\* this step is the turn loop of activation r's task ending by itself: the for
\* loop of _executeTask is not entered or not continued (stop(), 20 turns), or
\* it is left by one of its two break statements (no action, not approved)
TurnLoopEnds(r) ==
  \/ /\ pc[r] = "ctx"
     /\ pc'[r] \notin {"ctx", "thinking"} \/ curTask'[r] # curTask[r]
  \/ ActionFreeReply(r)
  \/ /\ pc[r] = "waiting"
     /\ promiseVal[r] = "false"
     /\ pc'[r] # "waiting"
  \/ /\ pc[r] = "executing"
     /\ CountType(emitted', "toolExecuted") = 1
     /\ pc'[r] \notin {"executing", "thinking"}

\* C31 (as claimed): every step in which the turn loop of a task ends without an exception
\* (no action in the reply, action not approved, stop(), twentieth turn done)
\* marks the task done and emits one taskCompleted event for it and no
\* taskFailed; when the action was rejected by rejectToolExecution() in a run
\* stop() was not called in, and a pending task is left within maxIterations,
\* the same step selects that task, marks it in_progress and emits taskStarted.
C31_LoopEndCompletes ==
  [][\A r \in Runs :
       TurnLoopEnds(r) =>
         /\ plan'[curTask[r]] = "done"
         /\ Count(emitted', Ev("taskCompleted", curTask[r])) = 1
         /\ CountType(emitted', "taskCompleted") = 1
         /\ CountType(emitted', "taskFailed") = 0
         /\ (/\ pc[r] = "waiting"
             /\ resolvedBy[r] = "reject"
             /\ ~stopSeen[r]
             /\ iterations[r] + 1 < maxIter
             /\ \E t \in Tasks \ {curTask[r]} : plan[t] = "pending") =>
              LET next == Min({t \in Tasks \ {curTask[r]} : plan[t] = "pending"})
              IN /\ pc'[r] = "ctx"
                 /\ curTask'[r] = next
                 /\ plan'[next] = "in_progress"
                 /\ Count(emitted', Ev("taskStarted", next)) = 1]_vars

\* this step is a run() call of activation r returning through its finally
\* block: a call that found _running false, returning at once (nothing to do)
\* or after its while loop has ended
RunReturns(r) ==
  /\ pc'[r] = "returned"
  /\ \/ pc[r] = "idle" /\ ~running
     \/ pc[r] \notin {"idle", "returned"}

\* C32 (as claimed): in the state a run() call that started a run returns in,
\* _running is false, the state is IDLE, no approval wait is outstanding and
\* no resolver is stored, the task the run had selected is not in_progress, and
\* the step's last event is stateChanged IDLE.
C32_ReturnLeavesIdle ==
  [][\A r \in Runs :
       RunReturns(r) =>
         /\ running' = FALSE
         /\ state' = "IDLE"
         /\ \A q \in Runs : ~(pc'[q] = "waiting" /\ promiseVal'[q] = "pending")
         /\ resolver' = 0
         /\ curTask[r] # 0 => plan'[curTask[r]] \in {"done", "pending"}
         /\ Len(emitted') > 0
         /\ emitted'[Len(emitted')].type = "stateChanged"
         /\ emitted'[Len(emitted')].arg = "IDLE"]_vars

\* the events a task is needed for
TaskEvents == {"streamChunk", "streamDone", "waitingForTool", "toolExecuted"}

\* the task left open (0 = none) by the events evs[n..] of one activation when
\* the task open before them is open; -1 when they are out of order: a
\* taskStarted while a task is open, a taskCompleted or taskFailed for another
\* task than the open one, an event of a task or a second completion while
\* none is open, a loopFinished while one is open
RECURSIVE OpenAfter(_, _, _)
OpenAfter(evs, n, open) ==
  IF n > Len(evs) THEN open
  ELSE LET e == evs[n]
       IN IF e.type = "taskStarted"
            THEN IF open = 0 THEN OpenAfter(evs, n + 1, e.arg) ELSE -1
          ELSE IF e.type \in {"taskCompleted", "taskFailed"}
            THEN IF open # 0 /\ e.arg = open THEN OpenAfter(evs, n + 1, 0) ELSE -1
          ELSE IF e.type \in TaskEvents
            THEN IF open # 0 THEN OpenAfter(evs, n + 1, open) ELSE -1
          ELSE IF e.type = "loopFinished"
            THEN IF open = 0 THEN OpenAfter(evs, n + 1, open) ELSE -1
          ELSE OpenAfter(evs, n + 1, open)

\* C33: the events an activation of run() emits in a step continue a
\* well-bracketed sequence: with nextTask as the open task before the step, a
\* taskStarted comes only while no task is open, a taskCompleted or taskFailed
\* only for the open task and closes it, streamDone, waitingForTool and
\* toolExecuted only while a task is open, the task open after the step is the
\* nextTask it leaves, and none is open when run() returns; a streamChunk is
\* emitted only while an activation is awaiting sendMessage with a task open.
C33_EventsBracketed ==
  [][/\ \A r \in Runs :
          (pc'[r] # pc[r] /\ ~(pc[r] = "idle" /\ running)) =>
            /\ OpenAfter(emitted', 1, curTask[r]) = curTask'[r]
            /\ pc'[r] = "returned" => curTask'[r] = 0
            /\ pc'[r] \in {"ctx", "thinking", "waiting", "executing"} => curTask'[r] # 0
            /\ CountType(emitted', "streamChunk") = 0
     /\ (pc' = pc /\ emitted' # emitted) =>
          /\ emitted' = <<Ev("streamChunk", 0)>>
          /\ \E r \in Runs : /\ pc[r] = "thinking"
                              /\ curTask[r] # 0
                              /\ OpenAfter(emitted', 1, curTask[r]) = curTask'[r]]_vars

\* C33 witness: a later activation has received the reply to its request, has
\* completed the second task with it and returned, while the first activation
\* is still awaiting the reply for the first task
C33_Witness ==
  /\ pc[1] = "thinking"
  /\ curTask[1] = 1
  /\ plan = <<"in_progress", "done">>
  /\ \E r \in Runs \ {1} : pc[r] = "returned"
  /\ Len(emitted) = 4
  /\ emitted[1].type = "streamDone"
  /\ emitted[2] = Ev("taskCompleted", 2)
  /\ emitted[3].type = "loopFinished"
  /\ emitted[4].type = "stateChanged"

\* C18: the step in which a reply without action completes a task takes the
\* state from THINKING to IDLE and emits stateChanged IDLE, so that IDLE is seen
\* before a next task of the run enters THINKING.
C18_NoActionBackToIdle ==
  [][\A r \in Runs :
       pc[r] = "thinking" /\ CompletesTask(r) =>
         /\ state' = "IDLE"
         /\ Count(emitted', Ev("stateChanged", "IDLE")) = 1]_vars

\* C11 witness: sendMessage has thrown on a later turn of the second task, after a
\* tool was executed: the task is pending again and the run has returned
C11_Witness ==
  \E r \in Runs :
    /\ pc[r] = "returned"
    /\ emitted = <<Ev("taskFailed", 2), Ev("stateChanged", "IDLE")>>
    /\ plan[2] = "pending"
    /\ plan[1] = "done"
    /\ nToolReplies > 0

----------------------------------------------------------------------------
(* The stream parser fed, as one fragment, a response composed of complete segments *)

\* the AgentLoop and the tool result as constructed
AgentAtStart ==
  /\ plan = [t \in Tasks |-> "pending"]
  /\ maxIter = 1
  /\ running = FALSE
  /\ state = "IDLE"
  /\ resolver = 0
  /\ promiseVal = [r \in Runs |-> "none"]
  /\ pc = [r \in Runs |-> "idle"]
  /\ curTask = [r \in Runs |-> 0]
  /\ iterations = [r \in Runs |-> 0]
  /\ turn = [r \in Runs |-> 0]
  /\ history = [r \in Runs |-> <<>>]
  /\ reply = [r \in Runs |-> 0]
  /\ toolCall = [r \in Runs |-> NoToolCall]
  /\ nToolReplies = 0
  /\ resolvedBy = [r \in Runs |-> "none"]
  /\ stopMid = [r \in Runs |-> FALSE]
  /\ stopSeen = [r \in Runs |-> FALSE]
  /\ turnWaits = [r \in Runs |-> 0]
  /\ turnExecs = [r \in Runs |-> 0]
  /\ taskRequests = [r \in Runs |-> 0]
  /\ taskExecs = [r \in Runs |-> 0]
  /\ rejected = {}
  /\ rejMsgs = [t \in Tasks |-> 0]
  /\ emitted = <<>>
  /\ result = NoResult
  /\ resultMessage = <<>>

SegInit ==
  /\ made \in UnitLists
  /\ text = TextOfUnits(made)
  /\ parser = InitParser
  /\ pos = 0
  /\ nFeeds = 0
  /\ heldBack = FALSE
  /\ flushed = FALSE
  /\ AgentAtStart
  /\ ExtractAtStart
  /\ TermAtStart

\* one streamChunk message carries the whole response
FeedWhole ==
  /\ pos = 0
  /\ FeedChunk(Len(text))

SegNext ==
  \/ FeedWhole
  \/ Flush

SegSpec == SegInit /\ [][SegNext]_vars

----------------------------------------------------------------------------
(* One turn of one task: the reply is streamed to the webview in fragments cut *)
(* at any positions while sendMessage is pending, then sendMessage returns and  *)
(* the streamDone event reaches the webview                                     *)

\* the payload is not valid JSON
Malformed(payload) == ~JSONparse(Trim(payload)).ok

\* the reply holds action payloads and none of them is valid JSON
MalformedOnly(d) ==
  /\ d.pays # <<>> \/ d.tail # <<>>
  /\ \A j \in 1..Len(d.pays) : Malformed(d.pays[j])
  /\ d.tail # <<>> => Malformed(d.tail)

\* the replies that hold an action payload that is not valid JSON
MalformedReplies ==
  {i \in 1..NumReplies :
     \/ \E j \in 1..Len(ReplyDescs[i].pays) : Malformed(ReplyDescs[i].pays[j])
     \/ ReplyDescs[i].tail # <<>> /\ Malformed(ReplyDescs[i].tail)}

StreamInit ==
  /\ text \in {Replies[i] : i \in MalformedReplies}
  /\ parser = InitParser
  /\ pos = 0
  /\ nFeeds = 0
  /\ heldBack = FALSE
  /\ flushed = FALSE
  /\ made = <<>>
  /\ AgentAtStart
  /\ ExtractAtStart
  /\ TermAtStart

\* the onChunk callback of sendMessage: a streamChunk event reaches the webview
StreamChunk(n) ==
  /\ pc[1] = "thinking"
  /\ FeedChunk(n)

\* sendMessage resolves with the text that was streamed
StreamReturns(i) ==
  /\ text = Replies[i]
  /\ pos = Len(text)
  /\ sendMessageReturnsAny(1, i)

\* the streamDone event reaches the webview
StreamDone ==
  /\ \E n \in 1..Len(emitted) : emitted[n].type = "streamDone"
  /\ Flush

StreamNext ==
  \/ run(1)
  \/ getContextItemsReturns(1)
  \/ \E n \in 1..(Len(text) - pos) : StreamChunk(n)
  \/ \E i \in MalformedReplies : StreamReturns(i)
  \/ StreamDone

StreamSpec == StreamInit /\ [][StreamNext]_vars

----------------------------------------------------------------------------
(* A response handed to parsePlan, whose plan SidebarProvider keeps, and to *)
(* parseToolCall                                                            *)

\* no response is being streamed to the webview
ParserAtStart ==
  /\ parser = InitParser
  /\ text = <<>>
  /\ pos = 0
  /\ nFeeds = 0
  /\ heldBack = FALSE
  /\ flushed = FALSE
  /\ made = <<>>

ExtractInit ==
  /\ assistantMessage \in PlanResponses \cup ToolResponses
  /\ planTasks = NoPlanTasks
  /\ currentPlan = <<>>
  /\ action = NoAction
  /\ AgentAtStart
  /\ ParserAtStart
  /\ TermAtStart

\* SidebarProvider: the plan is parsed from the assistant message and kept
handlePlan ==
  /\ ~planTasks.called
  /\ planTasks' = parsePlan(assistantMessage)
  /\ currentPlan' = IF planTasks'.found THEN PlanOf(planTasks'.tasks) ELSE currentPlan
  /\ UNCHANGED <<assistantMessage, action>>
  /\ UNCHANGED <<agentVars, parserVars, truncVars, termVars>>

\* _executeTask: const toolCall = PromptFactory.parseToolCall(fullResponse)
extractAction ==
  /\ ~action.called
  /\ action' = [called |-> TRUE, tc |-> parseToolCall(assistantMessage)]
  /\ UNCHANGED <<assistantMessage, planTasks, currentPlan>>
  /\ UNCHANGED <<agentVars, parserVars, truncVars, termVars>>

ExtractNext ==
  \/ handlePlan
  \/ extractAction

ExtractSpec == ExtractInit /\ [][ExtractNext]_vars

\* a parsed plan task as the spec has it: integer id, string task, status in the set
ValidTask(v) ==
  /\ v.t = "obj"
  /\ JGet(v, KeyId).t = "num"
  /\ JGet(v, KeyTask).t = "str"
  /\ JGet(v, KeyStatus).t = "str"
  /\ JGet(v, KeyStatus).s \in {StatusPending, StatusInProgress, StatusDone}

\* C28: parsePlan returns a plan only when every element of the array has an
\* integer id, a string task and a status among pending, in_progress, done; and
\* every task of the plan SidebarProvider keeps has them.
C28_PlanValidated ==
  /\ planTasks.found => \A n \in 1..Len(planTasks.tasks) : ValidTask(planTasks.tasks[n])
  /\ \A n \in 1..Len(currentPlan) :
       /\ currentPlan[n].id.t = "num"
       /\ currentPlan[n].task.t = "str"
       /\ currentPlan[n].status.t = "str"
       /\ currentPlan[n].status.s \in {StatusPending, StatusInProgress, StatusDone}

\* C29: parseToolCall returns an action only when the payload is a JSON object
\* whose name is a string and whose arguments is an object.
C29_ActionTyped ==
  action.tc.found =>
    /\ action.tc.name.t = "str"
    /\ action.tc.arguments.t = "obj"

----------------------------------------------------------------------------
(* One reply seen by both readers: the webview parses the fragments streamed  *)
(* to it and finalizes at streamDone, _executeTask applies parseToolCall to    *)
(* the full reply                                                               *)

\* replies whose tool_call markers stand inside a thinking or a message segment
NestedTexts ==
  { StartTag("thinking") \o TcOpen \o PayRead \o TcClose \o ClosingTag("thinking"),
    StartTag("message") \o TcOpen \o PayCmd \o TcClose \o ClosingTag("message")
      \o TcOpen \o PayRead \o TcClose }

PauseTexts == {Replies[i] : i \in 1..NumReplies} \cup NestedTexts

PauseInit ==
  /\ text \in PauseTexts
  /\ assistantMessage = text
  /\ planTasks = NoPlanTasks
  /\ currentPlan = <<>>
  /\ action = NoAction
  /\ parser = InitParser
  /\ pos = 0
  /\ nFeeds = 0
  /\ heldBack = FALSE
  /\ flushed = FALSE
  /\ made = <<>>
  /\ AgentAtStart
  /\ TermAtStart

\* the first streamChunk message carries the first n characters of the reply
FeedFirst(n) ==
  /\ pos = 0
  /\ FeedChunk(n)

\* a second streamChunk message carries the rest
FeedRest ==
  /\ pos > 0
  /\ pos < Len(text)
  /\ FeedChunk(Len(text) - pos)

PauseNext ==
  \/ \E n \in 1..Len(text) : FeedFirst(n)
  \/ FeedRest
  \/ Flush
  \/ extractAction

PauseSpec == PauseInit /\ [][PauseNext]_vars

\* the tool_call segments the parser has closed with a well-formed payload
WellFormedSegs ==
  {j \in 1..Len(parser.segs) :
     /\ parser.segs[j].type = "tool_call"
     /\ WellFormedPayload(Trim(parser.segs[j].content))}

\* C35 (as claimed): once the reply has been streamed and finalized and
\* parseToolCall applied to it, the action returned is the payload of the first
\* tool_call segment the parser closed with a well-formed payload, and none is
\* returned when the parser closed no such segment.
C35_PauseMatchesParser ==
  (action.called /\ flushed) =>
    IF WellFormedSegs = {}
      THEN ~action.tc.found
      ELSE action.tc = PayloadAction(Trim(parser.segs[Min(WellFormedSegs)].content))

----------------------------------------------------------------------------
(* TerminalService: executeCommand and executeCommands, called one after the *)
(* other; the user answers the dialog and may close the terminal             *)

\* the command texts: empty, blank, and two commands
CmdTexts == {<<>>, <<" ">>, <<"l", "s">>, <<"r", "m">>}

CmdLists == UNION {[1..k -> CmdTexts] : k \in 0..MaxCmds}

\* what showWarningMessage resolves to: a button, or undefined ("") when the
\* dialog is cancelled or dismissed
DialogResults == {"Run", "Copy Only", "Run All", "Copy All", ""}

\* the dialog with the bug of taking everything but the copy button for a yes
Approves_NotCopy(fn, confirmation) ==
  IF fn = "executeCommand" THEN confirmation # "Copy Only" ELSE confirmation # "Copy All"

\* confirmation === 'Run' / confirmation === 'Run All'
Approves(fn, confirmation) ==
  IF fn = "executeCommand" THEN confirmation = "Run" ELSE confirmation = "Run All"

\* confirmation === 'Copy Only' / confirmation === 'Copy All'
Copies(fn, confirmation) ==
  IF fn = "executeCommand" THEN confirmation = "Copy Only" ELSE confirmation = "Copy All"

\* the call returns val without touching the terminal
TermReturns(val) ==
  /\ phase' = "returned"
  /\ ret' = val
  /\ UNCHANGED <<terminal, sent>>

\* _getTerminal(), terminal.show, and the sends up to the first await: the one
\* command of executeCommand, the first command of executeCommands
TermSends(fn, commands) ==
  /\ terminal' = "open"
  /\ sent' = <<commands[1]>>
  /\ IF fn = "executeCommand"
       THEN phase' = "returned" /\ ret' = "true"
       ELSE phase' = "sending" /\ ret' = "none"

\* a call starts: up to its first await or its return
TermCall(fn, commands, skipConfirmation) ==
  /\ phase \in {"idle", "returned"}
  /\ calls < MaxCalls
  /\ calls' = calls + 1
  /\ call' = [fn |-> fn, commands |-> commands, skip |-> skipConfirmation]
  /\ choice' = ""
  /\ copied' = FALSE
  /\ IF commands = <<>> \/ (fn = "executeCommand" /\ Trim(commands[1]) = <<>>)
       THEN TermReturns("false") /\ sent' = <<>>
       ELSE IF ~skipConfirmation
         THEN phase' = "dialog" /\ ret' = "none" /\ sent' = <<>> /\ UNCHANGED terminal
         ELSE TermSends(fn, commands)
  /\ UNCHANGED <<agentVars, parserVars, truncVars, extractVars>>

executeCommand(command, skipConfirmation) ==
  TermCall("executeCommand", <<command>>, skipConfirmation)

executeCommands(commands, skipConfirmation) ==
  TermCall("executeCommands", commands, skipConfirmation)

\* showWarningMessage resolves and the call resumes
dialogReturns(confirmation) ==
  /\ phase = "dialog"
  /\ confirmation \in IF call.fn = "executeCommand" THEN {"Run", "Copy Only", ""}
                       ELSE {"Run All", "Copy All", ""}
  /\ choice' = confirmation
  /\ IF Copies(call.fn, confirmation)
       THEN copied' = TRUE /\ TermReturns("false")
       ELSE IF ~Approves(call.fn, confirmation)
         THEN copied' = FALSE /\ TermReturns("false")
         ELSE copied' = FALSE /\ TermSends(call.fn, call.commands)
  /\ UNCHANGED <<call, calls>>
  /\ UNCHANGED <<agentVars, parserVars, truncVars, extractVars>>

\* executeCommands: the 100 ms timer fires; the next command is sent, or the
\* loop is over and the call returns true
timerFires ==
  /\ phase = "sending"
  /\ IF Len(sent) < Len(call.commands)
       THEN /\ sent' = Append(sent, call.commands[Len(sent) + 1])
            /\ UNCHANGED <<phase, ret>>
       ELSE /\ phase' = "returned"
            /\ ret' = "true"
            /\ UNCHANGED sent
  /\ UNCHANGED <<terminal, call, choice, copied, calls>>
  /\ UNCHANGED <<agentVars, parserVars, truncVars, extractVars>>

\* the user closes the Zero-G terminal
closeTerminal ==
  /\ terminal = "open"
  /\ terminal' = "closed"
  /\ UNCHANGED <<call, phase, choice, sent, copied, ret, calls>>
  /\ UNCHANGED <<agentVars, parserVars, truncVars, extractVars>>

TermInit ==
  /\ TermAtStart
  /\ AgentAtStart
  /\ ParserAtStart
  /\ ExtractAtStart

TermNext ==
  \/ \E command \in CmdTexts, skipConfirmation \in BOOLEAN :
       executeCommand(command, skipConfirmation)
  \/ \E commands \in CmdLists, skipConfirmation \in BOOLEAN :
       executeCommands(commands, skipConfirmation)
  \/ \E confirmation \in DialogResults : dialogReturns(confirmation)
  \/ timerFires
  \/ closeTerminal

TermSpec == TermInit /\ [][TermNext]_vars

\* the user chose Run (Run All) in the dialog of the call
ChoseRun ==
  \/ call.fn = "executeCommand" /\ choice = "Run"
  \/ call.fn = "executeCommands" /\ choice = "Run All"

\* the user chose Copy Only (Copy All) in the dialog of the call
ChoseCopy ==
  \/ call.fn = "executeCommand" /\ choice = "Copy Only"
  \/ call.fn = "executeCommands" /\ choice = "Copy All"

----------------------------------------------------------------------------
(* Claims about the stream parser *)

\* the (type, content) segments a response composed of the units us holds
SegsOfUnits(us) == [j \in 1..Len(us) |-> [type |-> us[j].type, content |-> us[j].content]]

\* the free text pre holds no "<"
NoOpening(pre) == \A n \in 1..Len(pre) : pre[n] # "<"

\* the whole response has been fed as one fragment and not flushed yet
FedWhole == made # <<>> /\ pos = Len(text) /\ nFeeds = 1 /\ ~flushed

C22_FreeTextDiscarded ==
  FedWhole =>
    /\ parser.segs = SegsOfUnits(made)
    /\ parser.st = "idle"


\* C23: whatever the fragmentation, nothing of a tool_call payload is put on
\* display by renderAgentContent, no card or widget is appended while a tool_call
\* segment stays open, and when the stream is flushed with a tool_call segment
\* open that has received some payload, the whole payload is parsed, once.
C23_PayloadAtCloseOnly ==
  [][/\ parser'.shown["tool_call"] = <<>>
     /\ (parser.st = "tool_call" /\ parser'.st = "tool_call" /\ parser'.segs = parser.segs) =>
          (parser'.cards = parser.cards /\ parser'.parses = parser.parses)
     /\ (Flush /\ parser.st = "tool_call" /\ parser.content \o parser.raw # <<>>) =>
          parser'.parses = Append(parser.parses, parser.content \o parser.raw)]_vars

\* the segment a complete <message>ok</message> or <thinking>x</thinking> holds
TextSegs(t) ==
  IF t = TxtMessage THEN <<[type |-> "message", content |-> <<"o", "k">>]>>
  ELSE IF t = TxtThinking THEN <<[type |-> "thinking", content |-> <<"x">>]>>
  ELSE <<>>

\* the complete segments of the reply described by d, in textual order
DescSegs(d) ==
  TextSegs(d.pre)
    \o [j \in 1..Len(d.pays) |-> [type |-> "tool_call", content |-> d.pad \o d.pays[j] \o d.pad]]
    \o TextSegs(d.post)

\* C24: a closed tool_call whose payload is not valid JSON gives no card or
\* widget and does not stop the parser: once the whole reply has been fed, all
\* its complete segments are closed, in order, and the parser is idle unless
\* the reply ends inside a segment. When sendMessage returns a reply whose
\* action payloads are all malformed, no waitingForTool and no taskFailed event
\* is emitted, no tool is awaited or executed, and the task is completed.
C24_MalformedPayload ==
  [][\A i \in 1..NumReplies :
       text = Replies[i] =>
         /\ Len(parser'.cards)
              <= Cardinality({j \in 1..Len(parser'.segs) :
                               /\ parser'.segs[j].type = "tool_call"
                               /\ ~Malformed(parser'.segs[j].content)})
         /\ pos' = Len(text) =>
              /\ parser'.segs = DescSegs(ReplyDescs[i])
              /\ parser'.st = IF ReplyDescs[i].tail # <<>> /\ ~flushed' THEN "tool_call"
                              ELSE "idle"
         /\ (MalformedOnly(ReplyDescs[i]) /\ StreamReturns(i)) =>
              /\ CountType(emitted', "waitingForTool") = 0
              /\ CountType(emitted', "taskFailed") = 0
              /\ Count(emitted', Ev("taskCompleted", curTask[1])) = 1
              /\ plan'[curTask[1]] = "done"
              /\ pc'[1] \notin {"waiting", "executing"}
              /\ state' # "WAITING_FOR_TOOL"
              /\ resolver' = 0]_vars

\* C24 witness: the reply with a closed truncated payload followed by a message
\* has been streamed and flushed, both segments are closed, and its task is done
C24_Witness ==
  /\ flushed
  /\ MalformedOnly(ReplyDescs[7])
  /\ text = Replies[7]
  /\ Len(parser.segs) = 2
  /\ Malformed(parser.segs[1].content)
  /\ parser.segs[2].type = "message"
  /\ parser.cards = <<>>
  /\ plan[1] = "done"

\* the first payload of reply i that begins with a brace, 0 if none
FirstBrace(i) ==
  LET braced == {j \in 1..Len(ReplyDescs[i].pays) :
                   ReplyDescs[i].pays[j] # <<>> /\ ReplyDescs[i].pays[j][1] = "{"}
  IN IF braced = {} THEN 0 ELSE Min(braced)

\* the payload is not valid JSON or has no name or no arguments
BadPayload(p) ==
  \/ ~JSONparse(p).ok
  \/ JGet(JSONparse(p).val, KeyName) = JNull
  \/ JGet(JSONparse(p).val, KeyArguments) = JNull

\* the first brace-delimited payload of reply i is bad
FirstBraceBad(i) ==
  /\ FirstBrace(i) # 0
  /\ BadPayload(ReplyDescs[i].pays[FirstBrace(i)])

\* the replies whose first brace-delimited payload is bad
BadFirstReplies == {i \in 1..NumReplies : FirstBraceBad(i)}

\* a payload after the first brace-delimited one of reply i is well-formed
LaterWellFormed(i) ==
  \E j \in (FirstBrace(i) + 1)..Len(ReplyDescs[i].pays) :
    WellFormedPayload(ReplyDescs[i].pays[j])

\* C36: for a reply whose first brace-delimited payload is not valid JSON or
\* has no name or no arguments, parseToolCall returns null whatever payloads
\* follow, and the step in which sendMessage returns that reply leaves the turn
\* loop without awaiting or executing anything: no waitingForTool, no stored
\* resolver, the task done with one taskCompleted event.
C36_NoFallThrough ==
  /\ [](\A i \in BadFirstReplies : ~ReplyToolCall[i].found)
  /\ [][\A i \in BadFirstReplies :
          (/\ text = Replies[i]
           /\ pc[1] = "thinking"
           /\ pc'[1] # "thinking"
           /\ CountType(emitted', "streamDone") = 1) =>
            /\ pc'[1] \in {"ctx", "returned"}
            /\ ~toolCall'[1].found
            /\ resolver' = 0
            /\ state' # "WAITING_FOR_TOOL"
            /\ CountType(emitted', "waitingForTool") = 0
            /\ CountType(emitted', "taskFailed") = 0
            /\ Count(emitted', Ev("taskCompleted", curTask[1])) = 1
            /\ plan'[curTask[1]] = "done"]_vars

\* C36 witness: a reply whose truncated first payload is followed by a
\* well-formed one has been streamed and returned; the webview has closed both
\* tool_call segments, and the task is done without any tool awaited
C36_Witness ==
  /\ flushed
  /\ \E i \in 1..NumReplies :
       /\ text = Replies[i]
       /\ i \in BadFirstReplies
       /\ LaterWellFormed(i)
  /\ \E j \in 2..Len(parser.segs) :
       /\ parser.segs[j].type = "tool_call"
       /\ WellFormedPayload(Trim(parser.segs[j].content))
  /\ plan[1] = "done"
  /\ pc[1] = "returned"
  /\ resolver = 0
  /\ rejected = {}

\* the segments closed when the whole text is fed as one fragment and flushed
OneShot(t) == finalizeStream(appendAgentChunk(InitParser, t)).segs

\* C7: however the response text is cut into fragments, feeding them in order and
\* flushing closes the same sequence of (type, content) segments as feeding the
\* whole text as one fragment and flushing.
C7_SplitInvariance ==
  flushed => parser.segs = OneShot(text)

\* C19: finalizeStream closes a segment that is still open, with all the content
\* received for it (accumulated and still in the raw buffer), whether or not the
\* raw buffer is empty, and leaves the parser idle with empty buffers.
C19_FlushClosesOpen ==
  [][Flush =>
       /\ parser.st # "idle" =>
            parser'.segs = Append(parser.segs,
                                  [type |-> parser.st, content |-> parser.content \o parser.raw])
       /\ parser'.st = "idle"
       /\ parser'.raw = <<>>
       /\ parser'.content = <<>>]_vars

\* s is a prefix of t
IsPrefix(s, t) == Len(s) <= Len(t) /\ SubSeq(t, 1, Len(s)) = s

\* C20: whatever the fragmentation, the content emitted so far for the open
\* segment (the increments passed to renderAgentContent, which agentContentBuffer
\* accumulates) is a prefix of the content that segment is finalized with, so it
\* holds no character of the end delimiter that closes it; and the segments closed
\* so far by their end delimiters carry exactly their final content.
C20_IncrementsArePrefix ==
  LET final == OneShot(text)
      k == Len(parser.segs) + 1
  IN /\ ~flushed =>
          /\ Len(parser.segs) <= Len(final)
          /\ \A j \in 1..Len(parser.segs) : parser.segs[j] = final[j]
     /\ parser.st # "idle" /\ k <= Len(final) =>
          /\ final[k].type = parser.st
          /\ IsPrefix(parser.content, final[k].content)

\* C20 witness: a segment is open with content already emitted and the beginning
\* of its end delimiter held back, and the delimiter does close it in the end
C20_Witness ==
  /\ parser.st # "idle"
  /\ parser.content # <<>>
  /\ parser.raw # <<>>
  /\ pos < Len(text)
  /\ Len(OneShot(text)) > Len(parser.segs)
  /\ OneShot(text)[Len(parser.segs) + 1].content = parser.content

\* the text received so far
Received == SubSeq(text, 1, pos)

\* s is a suffix of t
IsSuffix(s, t) == Len(s) <= Len(t) /\ SubSeq(t, Len(t) - Len(s) + 1, Len(t)) = s

\* C34: after every feed, agentRawBuffer is the end of the text received and,
\* while a segment is open, a proper prefix of its end delimiter (shorter than
\* the delimiter, possibly empty), everything received since the '>' of the
\* start tag being in agentContentBuffer or in that prefix; while idle it is empty or
\* begins with '<' and holds no '>'.
C34_RawBufferBounded ==
  /\ IsSuffix(parser.raw, Received)
  /\ parser.st # "idle" =>
       /\ Len(parser.raw) < Len(ClosingTag(parser.st))
       /\ IsPrefix(parser.raw, ClosingTag(parser.st))
       /\ IsSuffix(<<">">> \o parser.content \o parser.raw, Received)
  /\ parser.st = "idle" /\ parser.raw # <<>> =>
       /\ parser.raw[1] = "<"
       /\ \A n \in 1..Len(parser.raw) : parser.raw[n] # ">"

\* C34 witness: after two or more fragments a message segment is open with
\* content emitted and its end delimiter held back but for the last character
C34_Witness ==
  /\ nFeeds >= 2
  /\ parser.st = "message"
  /\ parser.content # <<>>
  /\ Len(parser.raw) = Len(ClosingTag("message")) - 1

\* C7 witness: the text came in two or more fragments, a cut fell inside an end
\* delimiter, and a segment was closed
C7_Witness ==
  flushed /\ nFeeds >= 2 /\ heldBack /\ Len(parser.segs) >= 1

====
